---- MODULE Spec2Model ----
(***************************************************************************)
(* Online update workflow of the iRMC Redfish provider: the resource       *)
(* Create handler, the data-source Read handler and the helpers they call  *)
(* (license gate, collection fetch with retry, cache validity, selection   *)
(* reconciliation, deselect loop, execute payload, execute trigger).       *)
(*                                                                         *)
(* Strings that the code inspects (entries of update_list, designations,   *)
(* components) are sequences of symbols; a symbol is a blank (" ", "\t"),  *)
(* the separator "/", or a word that holds neither.  Strings the code only *)
(* compares are TLA+ strings.                                              *)
(***************************************************************************)
EXTENDS Integers, Sequences, FiniteSets, TLC

\* ------------------------------------------------------------------------
\* Bounds of the model
\* ------------------------------------------------------------------------

\* Longest server collection drawn.
MaxColl == 3

\* Longest update_list drawn.
MaxList == 2

\* The largest retry budget GetOnlineUpdateCollectionWithRetry is called
\* with on its own.
MaxRetries == 3

\* ------------------------------------------------------------------------
\* Framework values (types.String, types.List)
\* ------------------------------------------------------------------------

StringNull == [state |-> "null", value |-> ""]

StringUnknown == [state |-> "unknown", value |-> ""]

StringValue(v) == [state |-> "known", value |-> v]

ListNull == [state |-> "null", elems |-> <<>>]

ListUnknown == [state |-> "unknown", elems |-> <<>>]

ListValue(es) == [state |-> "known", elems |-> es]

IsNull(a) == a.state = "null"

IsUnknown(a) == a.state = "unknown"

\* types.String.ValueString: the empty string for null and unknown.
ValueString(a) == IF a.state = "known" THEN a.value ELSE ""

\* types.List.ElementsAs into []string, for a list of known strings.
ElementsAs(l) == l.elems

\* ------------------------------------------------------------------------
\* strings.TrimSpace, strings.Contains
\* ------------------------------------------------------------------------

IsSpace(c) == c \in {" ", "\t"}

RECURSIVE TrimLeft(_)
TrimLeft(s) ==
    IF s # <<>> /\ IsSpace(Head(s)) THEN TrimLeft(Tail(s)) ELSE s

RECURSIVE TrimRight(_)
TrimRight(s) ==
    IF s # <<>> /\ IsSpace(s[Len(s)])
    THEN TrimRight(SubSeq(s, 1, Len(s) - 1))
    ELSE s

TrimSpace(s) == TrimRight(TrimLeft(s))

Contains(s, c) == \E i \in 1..Len(s) : s[i] = c

\* ------------------------------------------------------------------------
\* allowedUpdateComponents
\* ------------------------------------------------------------------------

\* allowedUpdateComponents without the entry "Others".
allowedUpdateComponentsNoOthers ==
    { <<"Agent-Lx">>, <<"Agent-Win">>, <<"FibreChannelController">>,
      <<"LanController">>, <<"ManagementController">>,
      <<"PrimSupportPack-Win">>, <<"ScsiController">>, <<"Storage">>,
      <<"SystemBoard">> }

allowedUpdateComponents ==
    { <<"Agent-Lx">>, <<"Agent-Win">>, <<"FibreChannelController">>,
      <<"LanController">>, <<"ManagementController">>,
      <<"PrimSupportPack-Win">>, <<"ScsiController">>, <<"Storage">>,
      <<"SystemBoard">>, <<"Others">> }

\* ------------------------------------------------------------------------
\* PrepareUpdateLists
\* ------------------------------------------------------------------------

\* ClassifyOne with an unrecognised entry taken for a component.
ClassifyOneAnyComponent(acc, req) ==
    LET trimmedReq == TrimSpace(req)
    IN  IF trimmedReq = <<>> THEN acc
        ELSE LET a == [acc EXCEPT !.noneEmptyRequest = TRUE]
             IN  IF trimmedReq = <<"Others">>
                 THEN [a EXCEPT !.applyOthers = TRUE]
                 ELSE IF Contains(trimmedReq, "/")
                 THEN [a EXCEPT !.requestedDesignations = @ \cup {trimmedReq}]
                 ELSE [a EXCEPT !.requestedComponents = @ \cup {trimmedReq}]

\* One pass of the loop over requestedUpdates: acc holds
\* requestedDesignations, requestedComponents, applyOthers, noneEmptyRequest.
ClassifyOne(acc, req) ==
    LET trimmedReq == TrimSpace(req)
    IN  IF trimmedReq = <<>> THEN acc
        ELSE LET a == [acc EXCEPT !.noneEmptyRequest = TRUE]
             IN  IF trimmedReq = <<"Others">>
                 THEN [a EXCEPT !.applyOthers = TRUE]
                 ELSE IF Contains(trimmedReq, "/")
                 THEN [a EXCEPT !.requestedDesignations = @ \cup {trimmedReq}]
                 ELSE IF trimmedReq \in allowedUpdateComponents
                 THEN [a EXCEPT !.requestedComponents = @ \cup {trimmedReq}]
                 ELSE a

RECURSIVE ClassifyRequests(_, _)
ClassifyRequests(acc, requestedUpdates) ==
    IF requestedUpdates = <<>> THEN acc
    ELSE ClassifyRequests(ClassifyOne(acc, Head(requestedUpdates)),
                          Tail(requestedUpdates))

NoRequests ==
    [requestedDesignations |-> {}, requestedComponents |-> {},
     applyOthers |-> FALSE, noneEmptyRequest |-> FALSE]

\* IsSelected with the catch-all sweeping up the known categories as well.
IsSelectedOthersAny(item, req, applyAll) ==
    IF applyAll THEN TRUE
    ELSE \/ item.Designation \in req.requestedDesignations
         \/ item.Component \in req.requestedComponents
         \/ req.applyOthers

\* The body of the loop over collection.UpdateCollection up to isSelected.
IsSelected(item, req, applyAll) ==
    IF applyAll THEN TRUE
    ELSE \/ item.Designation \in req.requestedDesignations
         \/ item.Component \in req.requestedComponents
         \/ (req.applyOthers /\ item.Component \notin allowedUpdateComponents)

\* AppendItem with a selected designation put in front of the list.
AppendItemSelectedFirst(lists, item, isSelected, applyAll) ==
    IF isSelected
    THEN [lists EXCEPT !.selected = <<item.Designation>> \o @]
    ELSE IF ~applyAll
    THEN [lists EXCEPT !.deselected = Append(@, item.Designation)]
    ELSE lists

\* The appends that end the loop body.
AppendItem(lists, item, isSelected, applyAll) ==
    IF isSelected
    THEN [lists EXCEPT !.selected = Append(@, item.Designation)]
    ELSE IF ~applyAll
    THEN [lists EXCEPT !.deselected = Append(@, item.Designation)]
    ELSE lists

RECURSIVE SelectLoop(_, _, _, _)
SelectLoop(lists, items, req, applyAll) ==
    IF items = <<>> THEN lists
    ELSE SelectLoop(AppendItem(lists, Head(items),
                               IsSelected(Head(items), req, applyAll), applyAll),
                    Tail(items), req, applyAll)

\* ApplyAll with select-all kept for a null list only.
ApplyAllOnlyWhenNull(updateList, req) == IsNull(updateList)

\* applyAll after the first loop.
ApplyAll(updateList, req) == ~req.noneEmptyRequest

PrepareUpdateLists(p, collection) ==
    LET userProvidedList == ~IsNull(p.UpdateList) /\ ~IsUnknown(p.UpdateList)
        requestedUpdates ==
            IF userProvidedList THEN ElementsAs(p.UpdateList) ELSE <<>>
        req == ClassifyRequests(NoRequests, requestedUpdates)
        applyAll == ApplyAll(p.UpdateList, req)
        lists == SelectLoop([selected |-> <<>>, deselected |-> <<>>],
                            collection.UpdateCollection, req, applyAll)
    IN  [selected |-> lists.selected, deselected |-> lists.deselected,
         err |-> ""]

\* ------------------------------------------------------------------------
\* BuildExecutePayload
\* ------------------------------------------------------------------------

\* A payload is a function from its keys to their values.
NilPayload == [k \in {} |-> ""]

OperationTimeType(p) ==
    IF ~IsNull(p.ExecuteOnlineUpdOperationTime)
       /\ ~IsUnknown(p.ExecuteOnlineUpdOperationTime)
    THEN ValueString(p.ExecuteOnlineUpdOperationTime)
    ELSE "Immediately"

HasScheduleTime(p) ==
    ~IsNull(p.ExecuteOnlineUpdScheduleTime)
    /\ ~IsUnknown(p.ExecuteOnlineUpdScheduleTime)

\* BuildExecutePayload with StartDate set whenever a schedule time is given.
BuildExecutePayloadAlwaysStartDate(p, isFsas) ==
    LET operationTimeType == OperationTimeType(p)
        base == [k \in {"ExecutionMode", "SchedulingType"} |->
                    IF k = "ExecutionMode" THEN "ExecuteUpdate"
                    ELSE operationTimeType]
        sched == [k \in {"ExecutionMode", "SchedulingType", "StartDate"} |->
                    IF k = "StartDate"
                    THEN ValueString(p.ExecuteOnlineUpdScheduleTime)
                    ELSE base[k]]
    IN  IF HasScheduleTime(p)
        THEN [payload |-> sched, err |-> "", warn |-> FALSE]
        ELSE IF operationTimeType = "Once"
        THEN [payload |-> NilPayload,
              err |-> "attribute 'execute_online_upd_schedule_time' is required",
              warn |-> FALSE]
        ELSE [payload |-> base, err |-> "", warn |-> FALSE]

BuildExecutePayload(p, isFsas) ==
    LET operationTimeType == OperationTimeType(p)
        base == [k \in {"ExecutionMode", "SchedulingType"} |->
                    IF k = "ExecutionMode" THEN "ExecuteUpdate"
                    ELSE operationTimeType]
    IN  IF operationTimeType = "Once"
        THEN IF HasScheduleTime(p)
             THEN [payload |->
                      [k \in {"ExecutionMode", "SchedulingType", "StartDate"} |->
                          IF k = "StartDate"
                          THEN ValueString(p.ExecuteOnlineUpdScheduleTime)
                          ELSE base[k]],
                   err |-> "", warn |-> FALSE]
             ELSE [payload |-> NilPayload,
                   err |-> "attribute 'execute_online_upd_schedule_time' is required",
                   warn |-> FALSE]
        ELSE [payload |-> base, err |-> "", warn |-> HasScheduleTime(p)]

\* ------------------------------------------------------------------------
\* Endpoints (update_helper.go)
\* ------------------------------------------------------------------------

\* OEM namespace tokens, declared outside the files modelled here.
FSAS == "Fsas"

TS_FUJITSU == "ts_fujitsu"

FTS == "FTS"

GetOnlineUpdateEndpoints(isFsas) ==
    IF isFsas
    THEN [checkEndpoint |->
             "/redfish/v1/Systems/0/Oem/" \o FSAS \o "/eLCM/Actions/"
                 \o FSAS \o "eLCM.OnlineUpdate",
          collectionEndpoint |->
             "/redfish/v1/Systems/0/Oem/" \o FSAS \o "/eLCM/Actions/"
                 \o FSAS \o "eLCM.OnlineUpdateGetCollection",
          modifyCollectionEndpoint |->
             "/redfish/v1/Systems/0/Oem/" \o FSAS \o "/eLCM/Actions/"
                 \o FSAS \o "eLCM.OnlineUpdateModifyCollection"]
    ELSE [checkEndpoint |->
             "/redfish/v1/Systems/0/Oem/" \o TS_FUJITSU \o "/eLCM/Actions/"
                 \o FTS \o "eLCM.OnlineUpdate",
          collectionEndpoint |->
             "/redfish/v1/Systems/0/Oem/" \o TS_FUJITSU \o "/eLCM/Actions/"
                 \o FTS \o "eLCM.OnlineUpdateGetCollection",
          modifyCollectionEndpoint |->
             "/redfish/v1/Systems/0/Oem/" \o TS_FUJITSU \o "/eLCM/Actions/"
                 \o FTS \o "eLCM.OnlineUpdateModifyCollection"]

GetLicenseEndpoint(isFsas) ==
    IF isFsas
    THEN "/redfish/v1/Managers/iRMC/Oem/" \o FSAS \o "/iRMCConfiguration/Licenses"
    ELSE "/redfish/v1/Managers/iRMC/Oem/" \o TS_FUJITSU
             \o "/iRMCConfiguration/Licenses"

\* ------------------------------------------------------------------------
\* HTTP responses.  err is a transport error of the client; the other
\* fields are read only when err is FALSE.
\* ------------------------------------------------------------------------

StatusOK == 200

StatusCreated == 201

StatusAccepted == 202

StatusNoContent == 204

TaskLocation == "/redfish/v1/TaskService/Tasks/1"

\* Answers to a POST that starts a task or modifies the collection.
PostResponses ==
    { [err |-> TRUE, StatusCode |-> 0, Location |-> ""] }
    \cup [err : {FALSE},
          StatusCode : {StatusOK, StatusCreated, StatusAccepted,
                        StatusNoContent, 400, 500},
          Location : {"", TaskLocation}]

\* Answers to the GET of the license endpoint.
LicenseResponses ==
    { [err |-> TRUE, StatusCode |-> 0, decodes |-> FALSE, Keys |-> <<>>] }
    \cup [err : {FALSE}, StatusCode : {StatusOK, 404}, decodes : BOOLEAN,
          Keys : { <<>>, <<"KVM">>, <<"KVM", "eLCM">>, <<"elcm">> }]

\* ------------------------------------------------------------------------
\* CheckELCMLicense: "" is the nil error.
\* ------------------------------------------------------------------------

HasKey(keys, name) == \E i \in 1..Len(keys) : keys[i] = name

\* CheckELCMLicense with any license key accepted.
CheckELCMLicenseAnyKey(resp) ==
    IF resp.err THEN "failed to get license info"
    ELSE IF resp.StatusCode # StatusOK THEN "unexpected status code"
    ELSE IF ~resp.decodes THEN "failed to decode license information"
    ELSE IF Len(resp.Keys) > 0 THEN ""
    ELSE "eLCM license not found"

CheckELCMLicense(resp) ==
    IF resp.err THEN "failed to get license info"
    ELSE IF resp.StatusCode # StatusOK THEN "unexpected status code"
    ELSE IF ~resp.decodes THEN "failed to decode license information"
    ELSE IF HasKey(resp.Keys, "eLCM") THEN ""
    ELSE "eLCM license not found"

\* ------------------------------------------------------------------------
\* TriggerOnlineUpdateCheck, TriggerOnlineUpdateExecute
\* ------------------------------------------------------------------------

\* TriggerOnlineUpdateCheck with every status taken for a success.
TriggerOnlineUpdateCheckAnyStatus(resp) ==
    IF resp.err THEN [location |-> "", err |-> "POST request failed"]
    ELSE [location |-> resp.Location, err |-> ""]

\* TriggerOnlineUpdateCheck with the Location header required.
TriggerOnlineUpdateCheckStrict(resp) ==
    IF resp.err THEN [location |-> "", err |-> "POST request failed"]
    ELSE IF resp.StatusCode \notin
              {StatusOK, StatusAccepted, StatusCreated, StatusNoContent}
    THEN [location |-> "", err |-> "Unexpected response status"]
    ELSE IF resp.Location = ""
    THEN [location |-> "",
          err |-> "Task Location header not found in response"]
    ELSE [location |-> resp.Location, err |-> ""]

\* TriggerOnlineUpdateExecute with a missing Location header let through.
TriggerOnlineUpdateExecuteTolerant(resp) ==
    IF resp.err THEN [location |-> "", err |-> "POST request failed"]
    ELSE IF resp.StatusCode \notin
              {StatusAccepted, StatusOK, StatusNoContent, StatusCreated}
    THEN [location |-> "", err |-> "POST request returned status code"]
    ELSE [location |-> resp.Location, err |-> ""]

TriggerOnlineUpdateCheck(resp) ==
    IF resp.err THEN [location |-> "", err |-> "POST request failed"]
    ELSE IF resp.StatusCode \notin
              {StatusOK, StatusAccepted, StatusCreated, StatusNoContent}
    THEN [location |-> "", err |-> "Unexpected response status"]
    ELSE [location |-> resp.Location, err |-> ""]

TriggerOnlineUpdateExecute(resp) ==
    IF resp.err THEN [location |-> "", err |-> "POST request failed"]
    ELSE IF resp.StatusCode \notin
              {StatusAccepted, StatusOK, StatusNoContent, StatusCreated}
    THEN [location |-> "", err |-> "POST request returned status code"]
    ELSE IF resp.Location = ""
    THEN [location |-> "",
          err |-> "Task Location header not found in response"]
    ELSE [location |-> resp.Location, err |-> ""]

\* ------------------------------------------------------------------------
\* GetOnlineUpdateCollection
\* ------------------------------------------------------------------------

NilCheck ==
    [isNil |-> TRUE, LastStatusChangeDate |-> StringNull,
     UpdateCollection |-> <<>>]

\* Answers to the POST of the get-collection endpoint, for a server whose
\* snapshot is srv.
CollectionResponses(srv) ==
    { [err |-> TRUE, StatusCode |-> 0, decodes |-> FALSE, Status |-> "",
       LastStatusChangeDate |-> "", UpdateCollection |-> <<>>],
      [err |-> FALSE, StatusCode |-> 500, decodes |-> FALSE, Status |-> "",
       LastStatusChangeDate |-> "", UpdateCollection |-> <<>>],
      [err |-> FALSE, StatusCode |-> StatusOK, decodes |-> FALSE,
       Status |-> "", LastStatusChangeDate |-> "", UpdateCollection |-> <<>>],
      [err |-> FALSE, StatusCode |-> StatusOK, decodes |-> TRUE,
       Status |-> "InProgress", LastStatusChangeDate |-> "",
       UpdateCollection |-> <<>>],
      [err |-> FALSE, StatusCode |-> StatusOK, decodes |-> TRUE,
       Status |-> "Ready", LastStatusChangeDate |-> srv.LastStatusChangeDate,
       UpdateCollection |-> srv.UpdateCollection] }

GetOnlineUpdateCollection(resp) ==
    IF resp.err
    THEN [collection |-> NilCheck, inProgress |-> FALSE,
          err |-> "POST request failed"]
    ELSE IF resp.StatusCode # StatusOK
    THEN [collection |-> NilCheck, inProgress |-> FALSE,
          err |-> "Unexpected status code"]
    ELSE IF ~resp.decodes
    THEN [collection |-> NilCheck, inProgress |-> FALSE,
          err |-> "Error decoding JSON response"]
    ELSE IF resp.Status = "InProgress"
    THEN [collection |-> NilCheck, inProgress |-> TRUE, err |-> ""]
    ELSE [collection |->
             [isNil |-> FALSE,
              LastStatusChangeDate |-> StringValue(resp.LastStatusChangeDate),
              UpdateCollection |-> resp.UpdateCollection],
          inProgress |-> FALSE, err |-> ""]

\* RetryStep with the budget ignored.
RetryStepNoBudget(i, retries, resp) ==
    LET r == GetOnlineUpdateCollection(resp)
    IN  IF r.err # ""
        THEN [done |-> TRUE, collection |-> NilCheck, err |-> r.err, i |-> i]
        ELSE IF r.inProgress
        THEN [done |-> FALSE, collection |-> NilCheck, err |-> "", i |-> i + 1]
        ELSE [done |-> TRUE, collection |-> r.collection, err |-> "", i |-> i]

\* RetryStep with an exhausted budget reported as a result without error.
RetryStepSilentExhaust(i, retries, resp) ==
    LET r == GetOnlineUpdateCollection(resp)
    IN  IF r.err # ""
        THEN [done |-> TRUE, collection |-> NilCheck, err |-> r.err, i |-> i]
        ELSE IF r.inProgress
        THEN IF i + 1 < retries
             THEN [done |-> FALSE, collection |-> NilCheck, err |-> "",
                   i |-> i + 1]
             ELSE [done |-> TRUE, collection |-> NilCheck, err |-> "",
                   i |-> i + 1]
        ELSE [done |-> TRUE, collection |-> r.collection, err |-> "", i |-> i]

\* RetryStep with a failed fetch tried again like one in progress.
RetryStepRetryOnError(i, retries, resp) ==
    LET r == GetOnlineUpdateCollection(resp)
    IN  IF r.err # "" \/ r.inProgress
        THEN IF i + 1 < retries
             THEN [done |-> FALSE, collection |-> NilCheck, err |-> "",
                   i |-> i + 1]
             ELSE [done |-> TRUE, collection |-> NilCheck,
                   err |-> "Collection was not ready", i |-> i + 1]
        ELSE [done |-> TRUE, collection |-> r.collection, err |-> "", i |-> i]

\* One iteration of the loop of GetOnlineUpdateCollectionWithRetry, entered
\* with i < retries.  done tells that the function returns; otherwise the
\* loop sleeps and goes on with i.
RetryStep(i, retries, resp) ==
    LET r == GetOnlineUpdateCollection(resp)
    IN  IF r.err # ""
        THEN [done |-> TRUE, collection |-> NilCheck, err |-> r.err, i |-> i]
        ELSE IF r.inProgress
        THEN IF i + 1 < retries
             THEN [done |-> FALSE, collection |-> NilCheck, err |-> "",
                   i |-> i + 1]
             ELSE [done |-> TRUE, collection |-> NilCheck,
                   err |-> "Collection was not ready", i |-> i + 1]
        ELSE [done |-> TRUE, collection |-> r.collection, err |-> "", i |-> i]

\* ------------------------------------------------------------------------
\* CheckOnlineUpdateStatus
\* ------------------------------------------------------------------------

\* Results of WaitForRedfishTaskEnd: (finishedSuccessfully, err).
WaitResults ==
    { [finishedSuccessfully |-> TRUE, err |-> ""],
      [finishedSuccessfully |-> TRUE, err |-> "task state unknown"],
      [finishedSuccessfully |-> FALSE, err |-> ""],
      [finishedSuccessfully |-> FALSE, err |-> "timeout"],
      [finishedSuccessfully |-> FALSE, err |-> "task request failed"] }

\* CheckOnlineUpdateStatus with a failed fetch of the task log ending the
\* call without error.
CheckOnlineUpdateStatusLogMasks(wait, logHasError) ==
    IF wait.err # "" \/ ~wait.finishedSuccessfully
    THEN IF logHasError
         THEN ""
         ELSE "Oonline update check task failed"
    ELSE ""

CheckOnlineUpdateStatus(wait, logHasError) ==
    IF wait.err # "" \/ ~wait.finishedSuccessfully
    THEN IF logHasError
         THEN "Online update check task did not complete successfully"
         ELSE "Oonline update check task failed"
    ELSE ""

\* ------------------------------------------------------------------------
\* IsCollectionCacheValid
\* ------------------------------------------------------------------------

\* CACHE_DURATION, in hours.
CACHE_DURATION == 6

\* time.Parse(time.RFC3339, s) on the date strings of the model; t is the
\* instant in hours since 2025-01-01T00:00:00Z.
TimeParseRFC3339(s) ==
    CASE s = "2025-01-01T03:00:00Z"      -> [ok |-> TRUE, t |-> 3]
      [] s = "2025-01-01T04:00:00Z"      -> [ok |-> TRUE, t |-> 4]
      [] s = "2025-01-01T06:00:00+01:00" -> [ok |-> TRUE, t |-> 5]
      [] s = "2025-01-01T10:00:00Z"      -> [ok |-> TRUE, t |-> 10]
      [] s = "2025-01-01T11:00:00Z"      -> [ok |-> TRUE, t |-> 11]
      [] OTHER                           -> [ok |-> FALSE, t |-> 0]

\* CacheFresh with a snapshot of exactly CACHE_DURATION still valid.
CacheFreshInclusive(existingCollection, err, clock) ==
    IF err # "" THEN FALSE
    ELSE IF ~IsNull(existingCollection.LastStatusChangeDate)
            /\ ~IsUnknown(existingCollection.LastStatusChangeDate)
    THEN LET parsed == TimeParseRFC3339(
                           ValueString(existingCollection.LastStatusChangeDate))
         IN  parsed.ok /\ clock - parsed.t <= CACHE_DURATION
    ELSE FALSE

\* The part of IsCollectionCacheValid after the fetch: err and
\* existingCollection are what GetOnlineUpdateCollectionWithRetry returned,
\* clock is the time time.Since reads.
CacheFresh(existingCollection, err, clock) ==
    IF err # "" THEN FALSE
    ELSE IF ~IsNull(existingCollection.LastStatusChangeDate)
            /\ ~IsUnknown(existingCollection.LastStatusChangeDate)
    THEN LET parsed == TimeParseRFC3339(
                           ValueString(existingCollection.LastStatusChangeDate))
         IN  parsed.ok /\ clock - parsed.t < CACHE_DURATION
    ELSE FALSE

\* ------------------------------------------------------------------------
\* State
\* ------------------------------------------------------------------------

\* The invocations of one provider process.
Procs == {1, 2}

\* Target endpoints (plan.RedfishServer[0].Endpoint).
Endpoints == {"bmc1", "bmc2"}

VARIABLES
    kind,       \* [Procs -> "Create" | "Read" | "PrepareUpdateLists" | ...]
    pc,         \* [Procs -> the statement the invocation is at]
    plan,       \* [Procs -> the plan (Create) or the config (Read)]
    loc,        \* [Procs -> the handler's local variables]
    diags,      \* [Procs -> resp.Diagnostics]
    state,      \* [Procs -> resp.State]
    mutexPool,  \* the keys of mutexPool that are locked
    bmc,        \* [Endpoints -> the snapshot the server holds]
    net,        \* [Procs -> the remote calls the invocation has issued]
    callLog,    \* the invocations in the order of their remote update calls
    now         \* the clock, in hours since 2025-01-01T00:00:00Z

vars == <<kind, pc, plan, loc, diags, state, mutexPool, bmc, net, callLog, now>>

\* ------------------------------------------------------------------------
\* Inputs
\* ------------------------------------------------------------------------

Item(designation, component) ==
    [Designation |-> designation, Component |-> component]

ItemA == Item(<<"SystemBoard", "/", "A">>, <<"SystemBoard">>)

ItemB == Item(<<"Storage", "/", "B">>, <<"Storage">>)

ItemC == Item(<<"VendorX", "/", "C">>, <<"VendorX">>)

ItemD == Item(<<"Others", "/", "D">>, <<"Others">>)

ItemE == Item(<<"BIOS">>, <<"SystemBoard">>)

AllItems == {ItemA, ItemB, ItemC, ItemD, ItemE}

FlowItems == {ItemA, ItemC}

AllEntries ==
    { <<>>, <<" ">>, <<"Others">>, <<" ", "Others">>, <<"SystemBoard">>,
      <<"\t", "SystemBoard", " ">>, <<"SystemBoard", "/", "A">>,
      <<"Storage", "/", "B", " ">>, <<"VendorX">>, <<"BIOS">> }

FlowEntries == { <<" ">>, <<"Others">>, <<"SystemBoard">>, <<"VendorX">> }

\* Sequences over S of length at most n.
SeqsUpTo(S, n) == UNION { [1..k -> S] : k \in 0..n }

\* A collection holds each designation once.
UniqueDesignations(c) ==
    \A i, j \in 1..Len(c) : c[i].Designation = c[j].Designation => i = j

Designations(c) == [i \in 1..Len(c) |-> c[i].Designation]

Collections(items) ==
    { c \in SeqsUpTo(items, MaxColl) : UniqueDesignations(c) }

UpdateLists(entries, n) ==
    {ListNull, ListUnknown} \cup { ListValue(es) : es \in SeqsUpTo(entries, n) }

OperationTimes ==
    {StringNull, StringUnknown, StringValue("Immediately"), StringValue("Once")}

ScheduleTimes ==
    {StringNull, StringUnknown, StringValue("2025-01-02T00:00:00")}

Plan(endpoint, updateList, operationTime, scheduleTime) ==
    [Endpoint |-> endpoint, Id |-> StringNull, UpdateList |-> updateList,
     ExecuteOnlineUpdOperationTime |-> operationTime,
     ExecuteOnlineUpdScheduleTime |-> scheduleTime]

NoPlan == Plan("bmc1", ListNull, StringNull, StringNull)

DateStrings ==
    { "", "2025-01-01 05:00:00", "2025-01-01T03:00:00Z",
      "2025-01-01T04:00:00Z", "2025-01-01T06:00:00+01:00",
      "2025-01-01T11:00:00Z" }

\* A server: its vendor and the snapshot of its last update check.
Snapshot(fsas, date, items) ==
    [Fsas |-> fsas, LastStatusChangeDate |-> date, UpdateCollection |-> items,
     Deselected |-> {}]

\* The zero values of a response and of a poller result.
NoResponse == [err |-> FALSE, StatusCode |-> 0, Location |-> ""]

NoWait == [finishedSuccessfully |-> FALSE, err |-> "", logHasError |-> FALSE]

NoLicenseResponse ==
    [err |-> FALSE, StatusCode |-> 0, decodes |-> FALSE, Keys |-> <<>>]

NoLocals ==
    [api |-> FALSE, isFsas |-> FALSE, cacheValid |-> FALSE, i |-> 0,
     collection |-> NilCheck, selected |-> <<>>, deselected |-> <<>>, d |-> 0,
     executePayload |-> NilPayload, shouldExecute |-> FALSE,
     taskLocation |-> "", executeTaskLocation |-> "",
     existingCollection |-> NilCheck, existingErr |-> "", attempts |-> 0,
     err |-> "", retries |-> 0, fetched |-> <<>>, resp |-> NoResponse,
     wait |-> NoWait]

NoDiags == [errors |-> <<>>, warnings |-> <<>>]

NoState ==
    [isSet |-> FALSE, Id |-> "", LastStatusChangeDate |-> StringNull,
     UpdateCollection |-> <<>>]

NoCalls ==
    [license |-> 0, licenseResp |-> NoLicenseResponse, fetchCalls |-> 0,
     check |-> 0, checkAnswer |-> "none", poll |-> 0, pollExecute |-> 0,
     taskLog |-> 0, modify |-> <<>>, execute |-> 0, executeAnswer |-> "none",
     executeMarked |-> <<>>,
     sleep |-> <<>>, logout |-> 0, unlock |-> 0]

\* ------------------------------------------------------------------------
\* Steps shared by OnlineUpdateResource.Create and OnlineUpdateDataSource.Read
\* ------------------------------------------------------------------------

Upd(f, p, v) == [f EXCEPT ![p] = v]

\* The key mutexPool.Lock and mutexPool.Unlock are called with.
MutexKey(p) == <<plan[p].Endpoint, "resource-online-update">>

\* AfterLogout with no deferred mutexPool.Unlock.
AfterLogoutNoUnlock(p) == "done"

\* Where a return leads: the deferred api.Logout, then (Create) the
\* deferred mutexPool.Unlock.
AfterLogout(p) == IF kind[p] = "Create" THEN "unlock" ELSE "done"

Return(p) == IF loc[p].api THEN "logout" ELSE AfterLogout(p)

AddError(p, summary) ==
    Upd(diags, p, [diags[p] EXCEPT !.errors = Append(@, summary)])

AddWarning(p, summary) ==
    Upd(diags, p, [diags[p] EXCEPT !.warnings = Append(@, summary)])

\* A remote update call of p joins the log; a run of calls of one
\* invocation is logged once, and the log stops growing at three runs.
Called(p) ==
    IF callLog # <<>> /\ callLog[Len(callLog)] = p THEN callLog
    ELSE IF Len(callLog) >= 3 THEN callLog
    ELSE Append(callLog, p)

NowString == "2025-01-01T10:00:00Z"

\* mutexPool.Lock(ctx, endpoint, resourceName): waits until the key is free.
Lock(p) ==
    /\ pc[p] = "lock"
    /\ MutexKey(p) \notin mutexPool
    /\ mutexPool' = mutexPool \cup {MutexKey(p)}
    /\ pc' = Upd(pc, p, "connect")
    /\ UNCHANGED <<kind, plan, loc, diags, state, bmc, net, callLog, now>>

\* ConnectTargetSystem and, on success, defer api.Logout().
Connect(p) ==
    /\ pc[p] = "connect"
    /\ \E ok \in BOOLEAN :
          IF ok
          THEN /\ loc' = Upd(loc, p, [loc[p] EXCEPT !.api = TRUE])
               /\ pc' = Upd(pc, p, "vendor")
               /\ diags' = diags
          ELSE /\ diags' = AddError(p, "Service Connection Error")
               /\ pc' = Upd(pc, p, AfterLogout(p))
               /\ loc' = loc
    /\ UNCHANGED <<kind, plan, state, mutexPool, bmc, net, callLog, now>>

\* IsFsasCheck: fails, or tells the vendor of the server.
Vendor(p) ==
    /\ pc[p] = "vendor"
    /\ \E ok \in BOOLEAN :
          IF ~ok
          THEN /\ diags' = AddError(p, "Vendor Detection Failed")
               /\ pc' = Upd(pc, p, Return(p))
               /\ loc' = loc
          ELSE /\ loc' = Upd(loc, p, [loc[p] EXCEPT
                              !.isFsas = bmc[plan[p].Endpoint].Fsas])
               /\ pc' = Upd(pc, p, "license")
               /\ diags' = diags
    /\ UNCHANGED <<kind, plan, state, mutexPool, bmc, net, callLog, now>>

\* CheckELCMLicense(api, GetLicenseEndpoint(isFsas)).
License(p) ==
    /\ pc[p] = "license"
    /\ \E resp \in LicenseResponses :
          LET err == CheckELCMLicense(resp)
          IN  /\ IF err # ""
                 THEN /\ diags' = AddError(p, "eLCM License Check Failed")
                      /\ pc' = Upd(pc, p, Return(p))
                 ELSE /\ pc' = Upd(pc, p, "cache")
                      /\ diags' = diags
              /\ net' = Upd(net, p, [net[p] EXCEPT
                             !.license = @ + 1, !.licenseResp = resp])
    /\ UNCHANGED <<kind, plan, loc, state, mutexPool, bmc, callLog, now>>

\* The retry budget of the fetch inside IsCollectionCacheValid.
CacheRetries == 2

\* IsCollectionCacheValid: one fetch of its retry loop and, when the loop
\* ends, the freshness test.  existingCollection and err stay visible until
\* the caller's next statement.
IsCollectionCacheValid(p) ==
    /\ pc[p] = "cache"
    /\ \E resp \in CollectionResponses(bmc[plan[p].Endpoint]) :
          LET r == RetryStep(loc[p].i, CacheRetries, resp)
              valid == CacheFresh(r.collection, r.err, now)
          IN  IF r.done
              THEN /\ loc' = Upd(loc, p, [loc[p] EXCEPT
                                  !.i = 0, !.cacheValid = valid,
                                  !.existingCollection = r.collection,
                                  !.existingErr = r.err,
                                  !.attempts = loc[p].i + 1])
                   /\ pc' = Upd(pc, p, IF valid THEN "cached" ELSE "trigger")
              ELSE /\ loc' = Upd(loc, p, [loc[p] EXCEPT !.i = r.i])
                   /\ pc' = pc
    /\ net' = Upd(net, p, [net[p] EXCEPT
                   !.fetchCalls = IF loc[p].i = 0 THEN @ + 1 ELSE @])
    /\ callLog' = Called(p)
    /\ UNCHANGED <<kind, plan, diags, state, mutexPool, bmc, now>>

\* The locals of a callee are gone at the caller's next statement:
\* existingCollection and err of IsCollectionCacheValid, and the number of
\* fetches the last GetOnlineUpdateCollectionWithRetry made.
Leave(l) ==
    [l EXCEPT !.existingCollection = NilCheck, !.existingErr = "",
              !.attempts = 0]

\* The state the handlers write: the plan with Id set (Create), the
\* collection as well (Read).
CreateState(p) ==
    [isSet |-> TRUE,
     Id |-> GetOnlineUpdateEndpoints(loc[p].isFsas).checkEndpoint,
     LastStatusChangeDate |-> StringNull, UpdateCollection |-> <<>>]

ReadState(p, collection) ==
    [isSet |-> TRUE,
     Id |-> GetOnlineUpdateEndpoints(loc[p].isFsas).checkEndpoint,
     LastStatusChangeDate |-> collection.LastStatusChangeDate,
     UpdateCollection |-> collection.UpdateCollection]

\* One fetch of GetOnlineUpdateCollectionWithRetry(.., retries, ..) called by
\* a handler, and what the handler does when the call returns.
FetchCollection(p, retries, summary) ==
    \E resp \in CollectionResponses(bmc[plan[p].Endpoint]) :
       LET r == RetryStep(loc[p].i, retries, resp)
           l == Leave(loc[p])
       IN  /\ net' = Upd(net, p, [net[p] EXCEPT
                          !.fetchCalls = IF loc[p].i = 0 THEN @ + 1 ELSE @])
           /\ callLog' = Called(p)
           /\ IF ~r.done
              THEN /\ loc' = Upd(loc, p, [l EXCEPT !.i = r.i])
                   /\ UNCHANGED <<pc, diags, state>>
              ELSE IF r.err # ""
              THEN /\ diags' = AddError(p, summary)
                   /\ pc' = Upd(pc, p, Return(p))
                   /\ loc' = Upd(loc, p, [l EXCEPT
                                  !.i = 0, !.attempts = loc[p].i + 1])
                   /\ state' = state
              ELSE /\ loc' = Upd(loc, p, [l EXCEPT
                                  !.i = 0, !.attempts = loc[p].i + 1,
                                  !.collection = r.collection])
                   /\ diags' = diags
                   /\ IF kind[p] = "Create"
                      THEN /\ pc' = Upd(pc, p, "prepare")
                           /\ state' = state
                      ELSE /\ pc' = Upd(pc, p, Return(p))
                           /\ state' = Upd(state, p, ReadState(p, r.collection))
           /\ UNCHANGED <<kind, plan, mutexPool, bmc, now>>

\* The budget after a check.
CheckedRetries == 12

\* CachedRetriesCreate with the budget CheckedRetries.
CachedRetriesCreateLong == CheckedRetries

\* The retry budgets of the handlers' fetches with a valid cache.
CachedRetriesCreate == 3

CachedRetriesRead == 5

\* Cache valid: GetOnlineUpdateCollectionWithRetry with the short budget.
CachedFetch(p) ==
    /\ pc[p] = "cached"
    /\ FetchCollection(p,
           IF kind[p] = "Create" THEN CachedRetriesCreate ELSE CachedRetriesRead,
           "Failed to retrieve cached collection")

\* What the server answered to a POST, as the handlers tell answers apart.
Answer(resp) ==
    IF resp.err THEN "transport error"
    ELSE IF resp.StatusCode \notin
              {StatusOK, StatusCreated, StatusAccepted, StatusNoContent}
    THEN "error status"
    ELSE IF resp.Location = "" THEN "2xx without Location"
    ELSE "2xx with Location"

\* The server starts a check when it accepts the trigger: the snapshot is
\* stamped with the current time and every item is marked for execution
\* again.
ServerCheck(srv, resp) ==
    IF ~resp.err /\ resp.StatusCode \in
                       {StatusOK, StatusCreated, StatusAccepted, StatusNoContent}
    THEN [srv EXCEPT !.LastStatusChangeDate = NowString, !.Deselected = {}]
    ELSE srv

\* The server marks an item deselected when it accepts the modification, and
\* keeps the mark until a new check.
ServerDeselect(srv, designation, resp) ==
    IF ~resp.err /\ resp.StatusCode \in
                       {StatusOK, StatusCreated, StatusAccepted, StatusNoContent}
    THEN [srv EXCEPT !.Deselected = @ \cup {designation}]
    ELSE srv

\* The designations the server holds marked for execution, in the order of
\* its collection.
RECURSIVE MarkedOf(_, _)
MarkedOf(items, deselected) ==
    IF items = <<>> THEN <<>>
    ELSE IF Head(items).Designation \in deselected
    THEN MarkedOf(Tail(items), deselected)
    ELSE <<Head(items).Designation>> \o MarkedOf(Tail(items), deselected)

Marked(srv) == MarkedOf(srv.UpdateCollection, srv.Deselected)

\* Cache invalid: TriggerOnlineUpdateCheck, then the branch on taskLocation
\* (time.Sleep(5 * time.Second) when it is empty).
TriggerCheck(p) ==
    /\ pc[p] = "trigger"
    /\ \E resp \in PostResponses :
          LET r == TriggerOnlineUpdateCheck(resp)
              l == Leave(loc[p])
          IN  /\ bmc' = [bmc EXCEPT ![plan[p].Endpoint] = ServerCheck(@, resp)]
              /\ IF r.err # ""
                 THEN /\ diags' = AddError(p, "Trigger Online Update Check Failed")
                      /\ pc' = Upd(pc, p, Return(p))
                      /\ loc' = Upd(loc, p, l)
                      /\ net' = Upd(net, p, [net[p] EXCEPT
                                     !.check = @ + 1,
                                     !.checkAnswer = Answer(resp)])
                 ELSE IF r.location # ""
                 THEN /\ loc' = Upd(loc, p, [l EXCEPT !.taskLocation = r.location])
                      /\ pc' = Upd(pc, p, "pollCheck")
                      /\ net' = Upd(net, p, [net[p] EXCEPT
                                     !.check = @ + 1,
                                     !.checkAnswer = Answer(resp)])
                      /\ diags' = diags
                 ELSE /\ loc' = Upd(loc, p, l)
                      /\ pc' = Upd(pc, p, "fetch")
                      /\ net' = Upd(net, p, [net[p] EXCEPT
                                     !.check = @ + 1,
                                     !.checkAnswer = Answer(resp),
                                     !.sleep = Append(@, 5)])
                      /\ diags' = diags
    /\ callLog' = Called(p)
    /\ UNCHANGED <<kind, plan, state, mutexPool, now>>

\* CheckOnlineUpdateStatus on a task: WaitForRedfishTaskEnd and, when the
\* task did not end well, FetchRedfishTaskLog.
PollTask(p, summary, next) ==
    \E wait \in WaitResults, logHasError \in BOOLEAN :
       LET err == CheckOnlineUpdateStatus(wait, logHasError)
           logged == wait.err # "" \/ ~wait.finishedSuccessfully
       IN  /\ net' = Upd(net, p, [net[p] EXCEPT
                          !.poll = @ + 1,
                          !.pollExecute = IF next = "finish" THEN @ + 1 ELSE @,
                          !.taskLog = IF logged THEN @ + 1 ELSE @])
           /\ IF err # ""
              THEN /\ diags' = AddError(p, summary)
                   /\ pc' = Upd(pc, p, Return(p))
                   /\ UNCHANGED <<plan, state>>
              ELSE IF next = "finish"
              THEN /\ pc' = Upd(pc, p, Return(p))
                   /\ state' = Upd(state, p, CreateState(p))
                   /\ plan' = Upd(plan, p, [plan[p] EXCEPT
                                  !.Id = StringValue(CreateState(p).Id)])
                   /\ diags' = diags
              ELSE /\ pc' = Upd(pc, p, next)
                   /\ UNCHANGED <<plan, state, diags>>
           /\ UNCHANGED <<kind, loc, mutexPool, bmc, callLog, now>>

PollCheck(p) ==
    /\ pc[p] = "pollCheck"
    /\ PollTask(p,
           IF kind[p] = "Create" THEN "Preaper Online Update Check Task Failed"
           ELSE "Online Update Task Failed",
           "fetch")

\* After the check: GetOnlineUpdateCollectionWithRetry with the long budget.
FetchAfterCheck(p) ==
    /\ pc[p] = "fetch"
    /\ FetchCollection(p, CheckedRetries,
                       "Collection Retrieval Error after new check")

\* The deferred api.Logout().
Logout(p) ==
    /\ pc[p] = "logout"
    /\ pc' = Upd(pc, p, AfterLogout(p))
    /\ net' = Upd(net, p, [net[p] EXCEPT !.logout = @ + 1])
    /\ loc' = Upd(loc, p, Leave(loc[p]))
    /\ UNCHANGED <<kind, plan, diags, state, mutexPool, bmc, callLog, now>>

\* The deferred mutexPool.Unlock(ctx, endpoint, resourceName).
Unlock(p) ==
    /\ pc[p] = "unlock"
    /\ mutexPool' = mutexPool \ {MutexKey(p)}
    /\ pc' = Upd(pc, p, "done")
    /\ net' = Upd(net, p, [net[p] EXCEPT !.unlock = @ + 1])
    /\ UNCHANGED <<kind, plan, loc, diags, state, bmc, callLog, now>>

\* ------------------------------------------------------------------------
\* Steps of OnlineUpdateResource.Create after the collection is fetched
\* ------------------------------------------------------------------------

\* plan.Id = checkEndpoint; resp.State.Set(ctx, &plan); return.
Finish(p) ==
    /\ state' = Upd(state, p, CreateState(p))
    /\ plan' = Upd(plan, p, [plan[p] EXCEPT !.Id = StringValue(CreateState(p).Id)])
    /\ pc' = Upd(pc, p, Return(p))

\* The early return for an empty collection, else PrepareUpdateLists.
Prepare(p) ==
    /\ pc[p] = "prepare"
    /\ IF Len(loc[p].collection.UpdateCollection) = 0
       THEN /\ Finish(p)
            /\ loc' = Upd(loc, p, Leave(loc[p]))
            /\ diags' = diags
       ELSE LET r == PrepareUpdateLists(plan[p], loc[p].collection)
            IN  IF r.err # ""
                THEN /\ diags' = AddError(p, "Failed to prepare update lists")
                     /\ pc' = Upd(pc, p, Return(p))
                     /\ loc' = Upd(loc, p, Leave(loc[p]))
                     /\ UNCHANGED <<plan, state>>
                ELSE /\ loc' = Upd(loc, p, [Leave(loc[p]) EXCEPT
                                    !.selected = r.selected,
                                    !.deselected = r.deselected, !.d = 0])
                     /\ pc' = Upd(pc, p, "deselect")
                     /\ UNCHANGED <<diags, plan, state>>
    /\ UNCHANGED <<kind, mutexPool, bmc, net, callLog, now>>

\* The string a sequence of symbols stands for, as %s prints it.
RECURSIVE Text(_)
Text(s) == IF s = <<>> THEN "" ELSE Head(s) \o Text(Tail(s))

\* DeselectError with an error status let through.
DeselectErrorOnlyTransport(designation, resp) ==
    IF resp.err
    THEN "POST request to deselect '" \o Text(designation) \o "' failed"
    ELSE ""

\* DeselectError with no designation named in the error.
DeselectErrorUnnamed(designation, resp) ==
    IF resp.err THEN "POST request to deselect '' failed"
    ELSE IF resp.StatusCode # StatusOK /\ resp.StatusCode # StatusNoContent
    THEN "deselect POST request for '' returned status code"
    ELSE ""

\* The error DeselectUpdates returns for the answer to the POST for
\* designation.
DeselectError(designation, resp) ==
    IF resp.err
    THEN "POST request to deselect '" \o Text(designation) \o "' failed"
    ELSE IF resp.StatusCode # StatusOK /\ resp.StatusCode # StatusNoContent
    THEN "deselect POST request for '" \o Text(designation)
             \o "' returned status code"
    ELSE ""

\* What the log of modify-collection POSTs keeps of one POST.
Modification(designation, resp) ==
    [Designation |-> designation, err |-> resp.err,
     StatusCode |-> IF resp.err THEN 0 ELSE resp.StatusCode]

\* DeselectUpdates: its early return for an empty list, else the POST for
\* the next designation.
Deselect(p) ==
    /\ pc[p] = "deselect"
    /\ IF Len(loc[p].deselected) = 0
       THEN /\ pc' = Upd(pc, p, "build")
            /\ UNCHANGED <<loc, diags, net, callLog, bmc>>
       ELSE \E resp \in PostResponses :
               LET designation == loc[p].deselected[loc[p].d + 1]
               IN  /\ net' = Upd(net, p, [net[p] EXCEPT
                                  !.modify = Append(@,
                                      Modification(designation, resp))])
                   /\ bmc' = [bmc EXCEPT ![plan[p].Endpoint] =
                                 ServerDeselect(@, designation, resp)]
                   /\ callLog' = Called(p)
                   /\ IF DeselectError(designation, resp) # ""
                      THEN /\ diags' = AddError(p,
                                 "Failed to deselect updates via ModifyCollection")
                           /\ pc' = Upd(pc, p, Return(p))
                           /\ loc' = loc
                      ELSE /\ loc' = Upd(loc, p, [loc[p] EXCEPT !.d = @ + 1])
                           /\ pc' = Upd(pc, p,
                                  IF loc[p].d + 1 = Len(loc[p].deselected)
                                  THEN "build" ELSE "deselect")
                           /\ diags' = diags
    /\ UNCHANGED <<kind, plan, state, mutexPool, now>>

\* ShouldExecute with the execution never skipped.
ShouldExecuteAlways(selected, updateList) == TRUE

\* shouldExecute := len(selected) > 0 || plan.UpdateList.IsNull()

ShouldExecute(selected, updateList) ==
    Len(selected) > 0 \/ IsNull(updateList)

\* NoMatchWarning with the warning never raised.
NoMatchWarningNever(p, collection, selected, deselected) == FALSE

\* The condition of the warning in the branch that does not execute.

NoMatchWarning(p, collection, selected, deselected) ==
    /\ ~IsNull(p.UpdateList)
    /\ Len(collection.UpdateCollection) > 0
    /\ Len(selected) = 0
    /\ Len(deselected) > 0

\* BuildExecutePayload, then the decision to execute; the branch that does
\* not execute warns, writes the state and returns.
Build(p) ==
    /\ pc[p] = "build"
    /\ LET r == BuildExecutePayload(plan[p], loc[p].isFsas)
           shouldExecute == ShouldExecute(loc[p].selected, plan[p].UpdateList)
       IN  IF r.err # ""
           THEN /\ diags' = AddError(p, "Failed to build execute payload")
                /\ pc' = Upd(pc, p, Return(p))
                /\ UNCHANGED <<loc, plan, state>>
           ELSE /\ loc' = Upd(loc, p, [loc[p] EXCEPT
                               !.executePayload = r.payload,
                               !.shouldExecute = shouldExecute])
                /\ IF shouldExecute
                   THEN /\ pc' = Upd(pc, p, "execute")
                        /\ UNCHANGED <<diags, plan, state>>
                   ELSE /\ diags' =
                              IF NoMatchWarning(plan[p], loc[p].collection,
                                     loc[p].selected, loc[p].deselected)
                              THEN AddWarning(p, "No matching updates found")
                              ELSE diags
                        /\ Finish(p)
    /\ UNCHANGED <<kind, mutexPool, bmc, net, callLog, now>>

\* ExecuteWait with the operation time ignored.
ExecuteWaitAnyTime(operationTimeType, executeTaskLocation) ==
    IF executeTaskLocation # "" THEN "poll" ELSE "sleep"

\* What Create does after a successful execute trigger: polls the task,
\* sleeps 10 seconds, or goes on at once.
ExecuteWait(operationTimeType, executeTaskLocation) ==
    IF operationTimeType = "Immediately"
    THEN IF executeTaskLocation # "" THEN "poll" ELSE "sleep"
    ELSE "none"

\* TriggerOnlineUpdateExecute, then the branch on the operation time and on
\* executeTaskLocation (time.Sleep(10 * time.Second) when it is empty).
Execute(p) ==
    /\ pc[p] = "execute"
    /\ \E resp \in PostResponses :
          LET r == TriggerOnlineUpdateExecute(resp)
              operationTimeType == ValueString(plan[p].ExecuteOnlineUpdOperationTime)
          IN  IF r.err # ""
              THEN /\ diags' = AddError(p, "Trigger Online Update Execute Failed")
                   /\ pc' = Upd(pc, p, Return(p))
                   /\ net' = Upd(net, p, [net[p] EXCEPT
                                  !.execute = @ + 1,
                                  !.executeAnswer = Answer(resp),
                                  !.executeMarked =
                                     Marked(bmc[plan[p].Endpoint])])
                   /\ UNCHANGED <<loc, plan, state>>
              ELSE /\ loc' = Upd(loc, p, [loc[p] EXCEPT
                                  !.executeTaskLocation = r.location])
                   /\ diags' = diags
                   /\ IF ExecuteWait(operationTimeType, r.location) = "poll"
                      THEN /\ pc' = Upd(pc, p, "pollExecute")
                           /\ net' = Upd(net, p, [net[p] EXCEPT
                                  !.execute = @ + 1,
                                  !.executeAnswer = Answer(resp),
                                  !.executeMarked =
                                     Marked(bmc[plan[p].Endpoint])])
                           /\ UNCHANGED <<plan, state>>
                      ELSE /\ net' = Upd(net, p, [net[p] EXCEPT
                                  !.execute = @ + 1,
                                  !.executeAnswer = Answer(resp),
                                  !.executeMarked =
                                     Marked(bmc[plan[p].Endpoint]),
                                  !.sleep =
                                     IF ExecuteWait(operationTimeType,
                                            r.location) = "sleep"
                                     THEN Append(@, 10) ELSE @])
                           /\ Finish(p)
    /\ callLog' = Called(p)
    /\ UNCHANGED <<kind, mutexPool, bmc, now>>

\* CheckOnlineUpdateStatus on the execute task.
PollExecute(p) ==
    /\ pc[p] = "pollExecute"
    /\ PollTask(p, "Online Update Execute Task Failed", "finish")

\* ------------------------------------------------------------------------
\* The handlers as a system
\* ------------------------------------------------------------------------

HandlerStep(p) ==
    \/ Lock(p)
    \/ Connect(p)
    \/ Vendor(p)
    \/ License(p)
    \/ IsCollectionCacheValid(p)
    \/ CachedFetch(p)
    \/ TriggerCheck(p)
    \/ PollCheck(p)
    \/ FetchAfterCheck(p)
    \/ Prepare(p)
    \/ Deselect(p)
    \/ Build(p)
    \/ Execute(p)
    \/ PollExecute(p)
    \/ Logout(p)
    \/ Unlock(p)

Next == \E p \in Procs : HandlerStep(p)

\* Where a handler starts: Create at the lock, Read at the connection.
Entry(k) == IF k = "Create" THEN "lock" ELSE "connect"

InitShared ==
    /\ loc = [p \in Procs |-> NoLocals]
    /\ diags = [p \in Procs |-> NoDiags]
    /\ state = [p \in Procs |-> NoState]
    /\ net = [p \in Procs |-> NoCalls]
    /\ mutexPool = {}
    /\ callLog = <<>>
    /\ now = 10

\* Invocation 1 runs handler k with plan pl; invocation 2 does not run.
InitSingle(k, pl) ==
    /\ kind = [p \in Procs |-> IF p = 1 THEN k ELSE "none"]
    /\ pc = [p \in Procs |-> IF p = 1 THEN Entry(k) ELSE "off"]
    /\ plan = [p \in Procs |-> IF p = 1 THEN pl ELSE NoPlan]

\* Every endpoint holds the same snapshot.
InitServer(vendors, dates, collections) ==
    \E fsas \in vendors, date \in dates, items \in collections :
       bmc = [e \in Endpoints |-> Snapshot(fsas, date, items)]

\* The plans of a Create; a Read has no update attributes.
FlowPlans ==
    { Plan("bmc1", l, o, s) :
        l \in UpdateLists(FlowEntries, 1), o \in OperationTimes,
        s \in {StringNull, StringValue("2025-01-02T00:00:00")} }

\* One invocation, Create with any plan or Read, against a server whose
\* snapshot is fresh or just too old.
Init ==
    /\ InitShared
    /\ \E k \in {"Create", "Read"} :
          \E pl \in IF k = "Create" THEN FlowPlans ELSE {NoPlan} :
             InitSingle(k, pl)
    /\ InitServer(BOOLEAN,
                  {"2025-01-01T04:00:00Z", "2025-01-01T06:00:00+01:00"},
                  Collections(FlowItems))

Spec == Init /\ [][Next]_vars

\* The same under the scheduling of the handlers: a handler that can take a
\* step takes one; every remote call and the task poller return.
SpecLive == Init /\ [][Next]_vars /\ WF_vars(Next)

\* One invocation with one plan against a server with any date.
CachePlan ==
    Plan("bmc1", ListValue(<< <<"SystemBoard">> >>), StringValue("Immediately"),
         StringNull)

InitCache ==
    /\ InitShared
    /\ \E k \in {"Create", "Read"} : InitSingle(k, IF k = "Create" THEN CachePlan ELSE NoPlan)
    /\ InitServer(BOOLEAN, DateStrings, Collections(FlowItems))

SpecCache == InitCache /\ [][Next]_vars

\* Two invocations, each a Create or a Read, against the same endpoint or
\* against two.
InitConcurrent ==
    /\ InitShared
    /\ \E k1, k2 \in {"Create", "Read"}, e2 \in Endpoints :
          /\ k1 = "Read" => k2 = "Read"
          /\ kind = [p \in Procs |-> IF p = 1 THEN k1 ELSE k2]
          /\ pc = [p \in Procs |-> Entry(kind[p])]
          /\ plan = [p \in Procs |->
                       [IF kind[p] = "Create" THEN CachePlan ELSE NoPlan
                          EXCEPT !.Endpoint = IF p = 1 THEN "bmc1" ELSE e2]]
    /\ InitServer({TRUE}, {"2025-01-01T04:00:00Z"}, { <<ItemA, ItemC>> })

SpecConcurrent == InitConcurrent /\ [][Next]_vars

\* Two Creates against one endpoint, the lock deciding their order: one
\* asks for the system board updates, the other for the updates of the
\* other categories or for all of them.
InitSequence ==
    /\ InitShared
    /\ kind = [p \in Procs |-> "Create"]
    /\ pc = [p \in Procs |-> Entry("Create")]
    /\ \E l \in {ListNull, ListValue(<< <<"Others">> >>)} :
          plan = [p \in Procs |->
                    Plan("bmc1",
                         IF p = 1 THEN ListValue(<< <<"SystemBoard">> >>) ELSE l,
                         StringValue("Immediately"), StringNull)]
    /\ InitServer({TRUE}, {"2025-01-01T04:00:00Z"}, { <<ItemA, ItemC>> })

SpecSequence == InitSequence /\ [][Next]_vars

\* ------------------------------------------------------------------------
\* The pure functions on their own: invocation 1 calls one of them once.
\* ------------------------------------------------------------------------

CallPrepareUpdateLists(p) ==
    /\ pc[p] = "call"
    /\ kind[p] = "PrepareUpdateLists"
    /\ LET r == PrepareUpdateLists(plan[p], loc[p].collection)
       IN  loc' = Upd(loc, p, [loc[p] EXCEPT
                      !.selected = r.selected, !.deselected = r.deselected,
                      !.err = r.err])
    /\ pc' = Upd(pc, p, "returned")
    /\ UNCHANGED <<kind, plan, diags, state, mutexPool, bmc, net, callLog, now>>

CallBuildExecutePayload(p) ==
    /\ pc[p] = "call"
    /\ kind[p] = "BuildExecutePayload"
    /\ LET r == BuildExecutePayload(plan[p], loc[p].isFsas)
       IN  loc' = Upd(loc, p, [loc[p] EXCEPT
                      !.executePayload = r.payload, !.err = r.err])
    /\ pc' = Upd(pc, p, "returned")
    /\ UNCHANGED <<kind, plan, diags, state, mutexPool, bmc, net, callLog, now>>

NextFn == CallPrepareUpdateLists(1) \/ CallBuildExecutePayload(1)

InitFn ==
    /\ diags = [p \in Procs |-> NoDiags]
    /\ state = [p \in Procs |-> NoState]
    /\ net = [p \in Procs |-> NoCalls]
    /\ mutexPool = {}
    /\ callLog = <<>>
    /\ now = 10
    /\ bmc = [e \in Endpoints |-> Snapshot(FALSE, "", <<>>)]
    /\ pc = [p \in Procs |-> IF p = 1 THEN "call" ELSE "off"]
    /\ \/ /\ kind = [p \in Procs |-> IF p = 1 THEN "PrepareUpdateLists" ELSE "none"]
          /\ \E l \in UpdateLists(AllEntries, MaxList), c \in Collections(AllItems) :
                /\ plan = [p \in Procs |->
                             IF p = 1 THEN Plan("bmc1", l, StringNull, StringNull)
                             ELSE NoPlan]
                /\ loc = [p \in Procs |->
                            IF p = 1
                            THEN [NoLocals EXCEPT !.collection =
                                     [isNil |-> FALSE,
                                      LastStatusChangeDate |-> StringValue(""),
                                      UpdateCollection |-> c]]
                            ELSE NoLocals]
       \/ /\ kind = [p \in Procs |-> IF p = 1 THEN "BuildExecutePayload" ELSE "none"]
          /\ \E o \in OperationTimes, s \in ScheduleTimes, f \in BOOLEAN :
                /\ plan = [p \in Procs |->
                             IF p = 1 THEN Plan("bmc1", ListNull, o, s) ELSE NoPlan]
                /\ loc = [p \in Procs |->
                            IF p = 1 THEN [NoLocals EXCEPT !.isFsas = f]
                            ELSE NoLocals]

SpecFn == InitFn /\ [][NextFn]_vars

\* ------------------------------------------------------------------------
\* The helpers that talk to the server, on their own: invocation 1 calls
\* one of them once.
\* ------------------------------------------------------------------------

\* GetOnlineUpdateCollectionWithRetry(.., retries, ..): the test of the loop,
\* then one fetch.  fetched keeps what each GetOnlineUpdateCollection
\* returned.
CallGetOnlineUpdateCollectionWithRetry(p) ==
    /\ pc[p] = "call"
    /\ kind[p] = "GetOnlineUpdateCollectionWithRetry"
    /\ IF loc[p].i >= loc[p].retries
       THEN /\ loc' = Upd(loc, p, [loc[p] EXCEPT
                           !.collection = NilCheck,
                           !.err = "Collection was not ready"])
            /\ pc' = Upd(pc, p, "returned")
       ELSE \E resp \in CollectionResponses(bmc[plan[p].Endpoint]) :
               LET r == RetryStep(loc[p].i, loc[p].retries, resp)
               IN  /\ loc' = Upd(loc, p, [loc[p] EXCEPT
                                  !.fetched = Append(@,
                                      GetOnlineUpdateCollection(resp)),
                                  !.i = r.i,
                                  !.collection = r.collection,
                                  !.err = r.err])
                   /\ pc' = Upd(pc, p, IF r.done THEN "returned" ELSE "call")
    /\ UNCHANGED <<kind, plan, diags, state, mutexPool, bmc, net, callLog, now>>

\* DeselectUpdates(.., designationsToDeselect): the early return for an
\* empty list, else the POST for the next designation.
CallDeselectUpdates(p) ==
    /\ pc[p] = "call"
    /\ kind[p] = "DeselectUpdates"
    /\ IF Len(loc[p].deselected) = 0
       THEN /\ pc' = Upd(pc, p, "returned")
            /\ UNCHANGED <<loc, net, bmc>>
       ELSE \E resp \in PostResponses :
               LET designation == loc[p].deselected[loc[p].d + 1]
                   err == DeselectError(designation, resp)
               IN  /\ net' = Upd(net, p, [net[p] EXCEPT
                                  !.modify = Append(@,
                                      Modification(designation, resp))])
                   /\ bmc' = [bmc EXCEPT ![plan[p].Endpoint] =
                                 ServerDeselect(@, designation, resp)]
                   /\ IF err # ""
                      THEN /\ loc' = Upd(loc, p, [loc[p] EXCEPT !.err = err])
                           /\ pc' = Upd(pc, p, "returned")
                      ELSE /\ loc' = Upd(loc, p, [loc[p] EXCEPT !.d = @ + 1])
                           /\ pc' = Upd(pc, p,
                                  IF loc[p].d + 1 = Len(loc[p].deselected)
                                  THEN "returned" ELSE "call")
    /\ UNCHANGED <<kind, plan, diags, state, mutexPool, callLog, now>>

CallTriggerOnlineUpdateCheck(p) ==
    /\ pc[p] = "call"
    /\ kind[p] = "TriggerOnlineUpdateCheck"
    /\ \E resp \in PostResponses :
          LET r == TriggerOnlineUpdateCheck(resp)
          IN  loc' = Upd(loc, p, [loc[p] EXCEPT
                         !.resp = resp, !.taskLocation = r.location,
                         !.err = r.err])
    /\ net' = Upd(net, p, [net[p] EXCEPT !.check = @ + 1])
    /\ pc' = Upd(pc, p, "returned")
    /\ UNCHANGED <<kind, plan, diags, state, mutexPool, bmc, callLog, now>>

CallTriggerOnlineUpdateExecute(p) ==
    /\ pc[p] = "call"
    /\ kind[p] = "TriggerOnlineUpdateExecute"
    /\ \E resp \in PostResponses :
          LET r == TriggerOnlineUpdateExecute(resp)
          IN  loc' = Upd(loc, p, [loc[p] EXCEPT
                         !.resp = resp, !.executeTaskLocation = r.location,
                         !.err = r.err])
    /\ net' = Upd(net, p, [net[p] EXCEPT !.execute = @ + 1])
    /\ pc' = Upd(pc, p, "returned")
    /\ UNCHANGED <<kind, plan, diags, state, mutexPool, bmc, callLog, now>>

\* CheckOnlineUpdateStatus: WaitForRedfishTaskEnd and, when the task did not
\* end well, FetchRedfishTaskLog.
CallCheckOnlineUpdateStatus(p) ==
    /\ pc[p] = "call"
    /\ kind[p] = "CheckOnlineUpdateStatus"
    /\ \E wait \in WaitResults, logHasError \in BOOLEAN :
          LET logged == wait.err # "" \/ ~wait.finishedSuccessfully
          IN  /\ loc' = Upd(loc, p, [loc[p] EXCEPT
                             !.wait = [finishedSuccessfully |->
                                           wait.finishedSuccessfully,
                                       err |-> wait.err,
                                       logHasError |-> logged /\ logHasError],
                             !.err = CheckOnlineUpdateStatus(wait, logHasError)])
              /\ net' = Upd(net, p, [net[p] EXCEPT
                             !.poll = @ + 1,
                             !.taskLog = IF logged THEN @ + 1 ELSE @])
    /\ pc' = Upd(pc, p, "returned")
    /\ UNCHANGED <<kind, plan, diags, state, mutexPool, bmc, callLog, now>>

NextHelper ==
    \/ CallGetOnlineUpdateCollectionWithRetry(1)
    \/ CallDeselectUpdates(1)
    \/ CallTriggerOnlineUpdateCheck(1)
    \/ CallTriggerOnlineUpdateExecute(1)
    \/ CallCheckOnlineUpdateStatus(1)

\* The lists DeselectUpdates is called with: designations of the collection,
\* each once.
DeselectLists ==
    { Designations(c) : c \in Collections(AllItems) }

InitHelper ==
    /\ diags = [p \in Procs |-> NoDiags]
    /\ state = [p \in Procs |-> NoState]
    /\ net = [p \in Procs |-> NoCalls]
    /\ mutexPool = {}
    /\ callLog = <<>>
    /\ now = 10
    /\ pc = [p \in Procs |-> IF p = 1 THEN "call" ELSE "off"]
    /\ plan = [p \in Procs |-> NoPlan]
    /\ \/ /\ kind = [p \in Procs |->
                       IF p = 1 THEN "GetOnlineUpdateCollectionWithRetry"
                       ELSE "none"]
          /\ InitServer({FALSE}, {"2025-01-01T04:00:00Z"}, Collections(FlowItems))
          /\ \E n \in 0..MaxRetries :
                loc = [p \in Procs |->
                         IF p = 1 THEN [NoLocals EXCEPT !.retries = n]
                         ELSE NoLocals]
       \/ /\ kind = [p \in Procs |-> IF p = 1 THEN "DeselectUpdates" ELSE "none"]
          /\ bmc = [e \in Endpoints |-> Snapshot(FALSE, "", <<>>)]
          /\ \E l \in DeselectLists :
                loc = [p \in Procs |->
                         IF p = 1 THEN [NoLocals EXCEPT !.deselected = l]
                         ELSE NoLocals]
       \/ /\ \E k \in {"TriggerOnlineUpdateCheck", "TriggerOnlineUpdateExecute",
                       "CheckOnlineUpdateStatus"} :
                kind = [p \in Procs |-> IF p = 1 THEN k ELSE "none"]
          /\ bmc = [e \in Endpoints |-> Snapshot(FALSE, "", <<>>)]
          /\ loc = [p \in Procs |-> NoLocals]

SpecHelper == InitHelper /\ [][NextHelper]_vars

\* ------------------------------------------------------------------------
\* Vocabulary of the properties
\* ------------------------------------------------------------------------

\* The ten known categories of the data model.
KnownCategories ==
    { <<"Agent-Lx">>, <<"Agent-Win">>, <<"FibreChannelController">>,
      <<"LanController">>, <<"ManagementController">>,
      <<"PrimSupportPack-Win">>, <<"ScsiController">>, <<"Storage">>,
      <<"SystemBoard">>, <<"Others">> }

Range(f) == { f[i] : i \in DOMAIN f }

NonBlanks(e) == { i \in 1..Len(e) : e[i] \notin {" ", "\t"} }

\* An entry without the blanks around it.
Core(e) ==
    IF NonBlanks(e) = {} THEN <<>>
    ELSE SubSeq(e, CHOOSE i \in NonBlanks(e) : \A j \in NonBlanks(e) : i <= j,
                   CHOOSE i \in NonBlanks(e) : \A j \in NonBlanks(e) : i >= j)

\* The entries of a desired list, as written and without surrounding blanks.
Entries(l) == IF l.state = "known" THEN Range(l.elems) ELSE {}

CoreEntries(l) == { Core(e) : e \in Entries(l) }

HasNonBlankEntry(l) == \E e \in Entries(l) : NonBlanks(e) # {}

\* s lists members of c, each once, in the order they have in c.
InOrderOf(s, c) ==
    /\ \A i \in 1..Len(s) : \E k \in 1..Len(c) : c[k] = s[i]
    /\ \A i, j \in 1..Len(s) :
          i < j => \E k, m \in 1..Len(c) : k < m /\ c[k] = s[i] /\ c[m] = s[j]

\* PrepareUpdateLists has returned in invocation 1.
Prepared == kind[1] = "PrepareUpdateLists" /\ pc[1] = "returned"

\* BuildExecutePayload has returned in invocation 1.
Built == kind[1] = "BuildExecutePayload" /\ pc[1] = "returned"

\* ------------------------------------------------------------------------
\* C1
\* ------------------------------------------------------------------------

\* C1, as stated: for a desired list with a non-blank entry,
\* PrepareUpdateLists selects an item if and only if its designation is an
\* entry of the list, or its component is an entry of the list, or the list
\* holds "Others" and the component is not a known category.
C1_AsStated ==
    (Prepared /\ HasNonBlankEntry(plan[1].UpdateList)) =>
        \A item \in Range(loc[1].collection.UpdateCollection) :
            item.Designation \in Range(loc[1].selected)
            <=> \/ item.Designation \in Entries(plan[1].UpdateList)
                \/ item.Component \in Entries(plan[1].UpdateList)
                \/ /\ <<"Others">> \in Entries(plan[1].UpdateList)
                   /\ item.Component \notin KnownCategories

\* C1, amended: for a desired list with a non-blank entry, an item is
\* selected if and only if, taking the entries without the blanks around
\* them, its designation holds "/" and is an entry, or its component is an
\* entry and a known category other than "Others", or "Others" is an entry
\* and the component is not a known category.
C1_Selection ==
    (Prepared /\ HasNonBlankEntry(plan[1].UpdateList)) =>
        \A item \in Range(loc[1].collection.UpdateCollection) :
            item.Designation \in Range(loc[1].selected)
            <=> \/ /\ item.Designation \in CoreEntries(plan[1].UpdateList)
                   /\ "/" \in Range(item.Designation)
                \/ /\ item.Component \in CoreEntries(plan[1].UpdateList)
                   /\ item.Component \in KnownCategories \ { <<"Others">> }
                \/ /\ <<"Others">> \in CoreEntries(plan[1].UpdateList)
                   /\ item.Component \notin KnownCategories

\* A list with "Others" and a designation written with blanks around it has
\* selected one item by each and left a known category out.
C1_Witness ==
    /\ Prepared
    /\ plan[1].UpdateList.state = "known"
    /\ plan[1].UpdateList.elems = << <<" ", "Others">>, <<"Storage", "/", "B", " ">> >>
    /\ loc[1].collection.UpdateCollection = <<ItemA, ItemB, ItemC>>
    /\ loc[1].selected = <<ItemB.Designation, ItemC.Designation>>
    /\ loc[1].deselected = <<ItemA.Designation>>

\* ------------------------------------------------------------------------
\* C6
\* ------------------------------------------------------------------------

\* C6: outside select-all mode the selected and the deselected list are
\* disjoint, hold every item of the collection exactly once between them,
\* and each keeps the order of the collection.
C6_Partition ==
    (Prepared /\ HasNonBlankEntry(plan[1].UpdateList)) =>
        LET c == Designations(loc[1].collection.UpdateCollection)
            sel == loc[1].selected
            des == loc[1].deselected
        IN  /\ Range(sel) \cap Range(des) = {}
            /\ Range(sel) \cup Range(des) = Range(c)
            /\ Len(sel) + Len(des) = Len(c)
            /\ InOrderOf(sel, c)
            /\ InOrderOf(des, c)

\* Two items selected by one category, in the order of the collection.
C6_Witness ==
    /\ Prepared
    /\ HasNonBlankEntry(plan[1].UpdateList)
    /\ Len(loc[1].selected) >= 2
    /\ loc[1].selected[1] = ItemE.Designation
    /\ loc[1].selected[2] = ItemA.Designation

\* ------------------------------------------------------------------------
\* C7
\* ------------------------------------------------------------------------

\* C7: a null list, an empty list and a list of blank entries make
\* PrepareUpdateLists select every item, in order, and deselect none.
C7_SelectAll ==
    (Prepared /\ ~IsUnknown(plan[1].UpdateList)
              /\ ~HasNonBlankEntry(plan[1].UpdateList)) =>
        /\ loc[1].selected = Designations(loc[1].collection.UpdateCollection)
        /\ loc[1].deselected = <<>>

\* A list of two blank entries has selected both items of a collection.
C7_Witness ==
    /\ Prepared
    /\ plan[1].UpdateList = ListValue(<< <<" ">>, <<>> >>)
    /\ Len(loc[1].selected) = 2
    /\ loc[1].deselected = <<>>

\* ------------------------------------------------------------------------
\* C8
\* ------------------------------------------------------------------------

\* An entry the code recognises: "Others", a designation, a known category.
Recognised(e) ==
    \/ Core(e) = <<"Others">>
    \/ "/" \in Range(Core(e))
    \/ Core(e) \in KnownCategories

\* C8: when "Others" is the only recognised entry, exactly the items whose
\* component is no known category are selected.
C8_OthersOnly ==
    (/\ Prepared
     /\ \E e \in Entries(plan[1].UpdateList) : Core(e) = <<"Others">>
     /\ \A e \in Entries(plan[1].UpdateList) :
           Recognised(e) => Core(e) = <<"Others">>) =>
        \A item \in Range(loc[1].collection.UpdateCollection) :
            item.Designation \in Range(loc[1].selected)
            <=> item.Component \notin KnownCategories

\* "Others" next to an unrecognised entry selected the item of an unknown
\* category and deselected the item whose component is "Others".
C8_Witness ==
    /\ Prepared
    /\ plan[1].UpdateList = ListValue(<< <<"Others">>, <<"BIOS">> >>)
    /\ loc[1].selected = <<ItemC.Designation>>
    /\ loc[1].deselected = <<ItemD.Designation>>

\* ------------------------------------------------------------------------
\* C10
\* ------------------------------------------------------------------------

\* C10: BuildExecutePayload fails for Once without a schedule time; for
\* Once with one the payload carries it as StartDate; for Immediately with
\* one it succeeds without a StartDate key; every payload built has
\* ExecutionMode "ExecuteUpdate" and the operation time, "Immediately" when
\* none is given, as SchedulingType.
C10_Payload ==
    Built =>
        LET op == plan[1].ExecuteOnlineUpdOperationTime
            sched == plan[1].ExecuteOnlineUpdScheduleTime
            payload == loc[1].executePayload
        IN  /\ (op = StringValue("Once") /\ sched.state # "known")
                  => loc[1].err # ""
            /\ (op = StringValue("Once") /\ sched.state = "known")
                  => /\ loc[1].err = ""
                     /\ "StartDate" \in DOMAIN payload
                     /\ payload["StartDate"] = sched.value
            /\ (op = StringValue("Immediately") /\ sched.state = "known")
                  => /\ loc[1].err = ""
                     /\ "StartDate" \notin DOMAIN payload
            /\ loc[1].err = ""
                  => /\ payload["ExecutionMode"] = "ExecuteUpdate"
                     /\ payload["SchedulingType"] =
                           IF op.state = "known" THEN op.value ELSE "Immediately"

\* Immediately with a schedule time has built a payload of two keys.
C10_Witness ==
    /\ Built
    /\ plan[1].ExecuteOnlineUpdOperationTime = StringValue("Immediately")
    /\ plan[1].ExecuteOnlineUpdScheduleTime.state = "known"
    /\ loc[1].err = ""
    /\ DOMAIN loc[1].executePayload = {"ExecutionMode", "SchedulingType"}

\* ------------------------------------------------------------------------
\* C2
\* ------------------------------------------------------------------------

\* The Create run of p has built its execute payload without error.
PayloadBuilt(p) == kind[p] = "Create" /\ loc[p].executePayload # NilPayload

\* C2: a Create run that got through deselect and payload construction
\* issues the execute POST if and only if an item was selected or
\* update_list is null, so always for a null update_list; no run issues it
\* earlier.
C2_ExecuteDecision ==
    \A p \in Procs :
        kind[p] = "Create" =>
            /\ ~PayloadBuilt(p) => net[p].execute = 0
            /\ (PayloadBuilt(p) /\ pc[p] # "execute") =>
                  /\ net[p].execute = 1
                        <=> \/ Len(loc[p].selected) > 0
                            \/ IsNull(plan[p].UpdateList)
                  /\ IsNull(plan[p].UpdateList) => net[p].execute = 1

\* A run with a null update_list has issued the execute POST and ended.
C2_Witness ==
    /\ PayloadBuilt(1)
    /\ IsNull(plan[1].UpdateList)
    /\ net[1].execute = 1
    /\ pc[1] = "done"

\* ------------------------------------------------------------------------
\* C3
\* ------------------------------------------------------------------------

\* C3: a Create run with operation time Immediately whose execute POST was
\* answered 2xx without a Location header does not poll, sleeps 10 seconds
\* and ends with the state written and no error.
C3_FallbackWait ==
    \A p \in Procs :
        (/\ kind[p] = "Create"
         /\ plan[p].ExecuteOnlineUpdOperationTime = StringValue("Immediately")
         /\ net[p].executeAnswer = "2xx without Location"
         /\ pc[p] = "done") =>
            /\ diags[p].errors = <<>>
            /\ state[p].isSet
            /\ 10 \in Range(net[p].sleep)
            /\ loc[p].executeTaskLocation = ""

\* ------------------------------------------------------------------------
\* C4
\* ------------------------------------------------------------------------

\* C4: of two invocations against one endpoint, one issues all its remote
\* update calls before the other issues its first.
C4_Serialized ==
    plan[1].Endpoint = plan[2].Endpoint => Len(callLog) <= 2

\* ------------------------------------------------------------------------
\* C5
\* ------------------------------------------------------------------------

\* IsCollectionCacheValid has just returned in p.
CacheChecked(p) == pc[p] \in {"cached", "trigger"} /\ loc[p].attempts > 0

\* C5: IsCollectionCacheValid makes at most 2 fetches, raises no error, and
\* returns true if and only if the fetch gave a collection whose
\* lastStatusChangeDate parses as RFC3339 and lies less than 6 hours back;
\* any failure of the fetch makes it return false.
C5_CacheValid ==
    \A p \in Procs :
        CacheChecked(p) =>
            LET date == TimeParseRFC3339(
                            ValueString(loc[p].existingCollection.LastStatusChangeDate))
            IN  /\ loc[p].attempts <= 2
                /\ diags[p].errors = <<>>
                /\ loc[p].cacheValid
                      <=> /\ loc[p].existingErr = ""
                          /\ ~loc[p].existingCollection.isNil
                          /\ date.ok
                          /\ now - date.t < 6
                /\ loc[p].existingErr # "" => ~loc[p].cacheValid
                /\ loc[p].cacheValid <=> pc[p] = "cached"

\* The second fetch gave a snapshot five hours old (written with a zone
\* offset) and the cache was judged valid.
C5_Witness ==
    /\ CacheChecked(1)
    /\ loc[1].attempts = 2
    /\ loc[1].cacheValid
    /\ ValueString(loc[1].existingCollection.LastStatusChangeDate)
          = "2025-01-01T06:00:00+01:00"

\* ------------------------------------------------------------------------
\* C9
\* ------------------------------------------------------------------------

\* C9, as stated, read for the runs that end without error: a Create run with
\* a non-null update_list in which no item was selected issues no execute POST
\* and surfaces a warning.
C9_AsStated ==
    \A p \in Procs :
        (/\ kind[p] = "Create"
         /\ pc[p] = "done"
         /\ diags[p].errors = <<>>
         /\ ~IsNull(plan[p].UpdateList)
         /\ Len(loc[p].selected) = 0) =>
            /\ net[p].execute = 0
            /\ diags[p].warnings # <<>>

\* C9, amended: a Create run with a non-null update_list in which no item
\* was selected issues no execute POST; when the run got through the
\* deselect phase and payload construction (so the collection was not
\* empty) it surfaces the warning.
C9_NoMatch ==
    \A p \in Procs :
        (/\ kind[p] = "Create"
         /\ ~IsNull(plan[p].UpdateList)
         /\ Len(loc[p].selected) = 0) =>
            /\ net[p].execute = 0
            /\ (PayloadBuilt(p) /\ pc[p] # "build") =>
                  diags[p].warnings = <<"No matching updates found">>

\* A run whose update_list matched nothing has ended with the warning, the
\* state written and no execute POST.
C9_Witness ==
    /\ kind[1] = "Create"
    /\ pc[1] = "done"
    /\ ~IsNull(plan[1].UpdateList)
    /\ Len(loc[1].selected) = 0
    /\ diags[1].warnings = <<"No matching updates found">>
    /\ state[1].isSet
    /\ net[1].execute = 0


\* ------------------------------------------------------------------------
\* C11
\* ------------------------------------------------------------------------

\* Invocation 1 is a call of helper k on its own, and has returned.
Calls(k) == kind[1] = k

Returned(k) == kind[1] = k /\ pc[1] = "returned"

\* C11: GetOnlineUpdateCollectionWithRetry with budget n issues at most n
\* fetches, goes on only after a fetch in progress, returns what the first
\* fetch not in progress returned, and returns an error and no collection
\* when all n fetches were in progress.
C11_RetryBudget ==
    Calls("GetOnlineUpdateCollectionWithRetry") =>
        LET f == loc[1].fetched
            n == loc[1].retries
        IN  /\ Len(f) <= n
            /\ \A k \in 1..(Len(f) - 1) : f[k].inProgress
            /\ pc[1] = "returned" =>
                  /\ (Len(f) > 0 /\ ~f[Len(f)].inProgress) =>
                        /\ loc[1].collection = f[Len(f)].collection
                        /\ loc[1].err = f[Len(f)].err
                  /\ (\A k \in 1..Len(f) : f[k].inProgress) =>
                        /\ Len(f) = n
                        /\ loc[1].err # ""
                        /\ loc[1].collection = NilCheck

\* A call with budget 3 has returned after three fetches in progress.
C11_Witness ==
    /\ Returned("GetOnlineUpdateCollectionWithRetry")
    /\ loc[1].retries = 3
    /\ Len(loc[1].fetched) = 3
    /\ \A k \in 1..3 : loc[1].fetched[k].inProgress
    /\ loc[1].err = "Collection was not ready"

\* ------------------------------------------------------------------------
\* C12
\* ------------------------------------------------------------------------

\* p runs one of the two handlers.
Handler(p) == kind[p] \in {"Create", "Read"}

\* p has issued a collection fetch, a check trigger, a modify-collection
\* POST, an execute POST or a task poll.
UpdateCalled(p) ==
    \/ net[p].fetchCalls > 0
    \/ net[p].check > 0
    \/ net[p].modify # <<>>
    \/ net[p].execute > 0
    \/ net[p].poll > 0

\* The answer to the license read is a transport error, a status other than
\* 200, a body that does not decode, or a list without a key named "eLCM".
LicenseRefused(resp) ==
    \/ resp.err
    \/ resp.StatusCode # 200
    \/ ~resp.decodes
    \/ "eLCM" \notin Range(resp.Keys)

Ended(p) == pc[p] \in {"logout", "unlock", "done"}

\* C12: Create and Read read the license at most once and before any update
\* call; when the read is refused the invocation ends with the license
\* error, writes no state and issues no update call.
C12_LicenseFirst ==
    \A p \in Procs :
        Handler(p) =>
            /\ net[p].license <= 1
            /\ UpdateCalled(p) => net[p].license = 1
            /\ (net[p].license = 1 /\ LicenseRefused(net[p].licenseResp)) =>
                  /\ diags[p].errors = << "eLCM License Check Failed" >>
                  /\ ~UpdateCalled(p)
                  /\ ~state[p].isSet
                  /\ Ended(p)

\* A Read whose license list holds no key named "eLCM" has ended.
C12_Witness ==
    /\ kind[1] = "Read"
    /\ pc[1] = "done"
    /\ net[1].license = 1
    /\ ~net[1].licenseResp.err
    /\ net[1].licenseResp.StatusCode = 200
    /\ net[1].licenseResp.decodes
    /\ net[1].licenseResp.Keys = << "KVM" >>
    /\ diags[1].errors # <<>>

\* ------------------------------------------------------------------------
\* C13
\* ------------------------------------------------------------------------

\* The execute POST of p was answered with a success status and a task
\* location.
ExecuteSucceeded(p) ==
    net[p].execute = 1 /\ net[p].executeAnswer = "2xx with Location"

\* C13: a Create run with operation time Once whose execute POST succeeded
\* has written the state and ended, without an error, without a poll of the
\* execute task and without the 10 second wait.
C13_OnceNoWait ==
    \A p \in Procs :
        (/\ kind[p] = "Create"
         /\ plan[p].ExecuteOnlineUpdOperationTime = StringValue("Once")
         /\ ExecuteSucceeded(p)) =>
            /\ state[p].isSet
            /\ Ended(p)
            /\ diags[p].errors = <<>>
            /\ net[p].pollExecute = 0
            /\ 10 \notin Range(net[p].sleep)

\* A Create run with operation time Once has ended after a successful
\* execute POST.
C13_Witness ==
    /\ kind[1] = "Create"
    /\ plan[1].ExecuteOnlineUpdOperationTime = StringValue("Once")
    /\ ExecuteSucceeded(1)
    /\ pc[1] = "done"
    /\ state[1].isSet

\* ------------------------------------------------------------------------
\* C14
\* ------------------------------------------------------------------------

\* A modify-collection POST that met a transport error or a status other
\* than 200 and 204.
ModifyFailed(m) == m.err \/ m.StatusCode \notin {200, 204}

\* C14: in a Create run the payload is built only after every deselect POST
\* was issued and none failed, the execute POST is issued only after the
\* payload was built, and the execute task is polled only after the execute
\* POST; no deselect POST follows any of them, and a run with a failed
\* deselect POST issues no execute POST.
C14_Order ==
    \A p \in Procs :
        kind[p] = "Create" =>
            /\ PayloadBuilt(p) =>
                  /\ Designations(net[p].modify) = loc[p].deselected
                  /\ \A k \in 1..Len(net[p].modify) :
                        ~ModifyFailed(net[p].modify[k])
            /\ net[p].execute > 0 => PayloadBuilt(p)
            /\ net[p].pollExecute > 0 => ExecuteSucceeded(p)
            /\ (\E k \in 1..Len(net[p].modify) : ModifyFailed(net[p].modify[k]))
                  => net[p].execute = 0 /\ net[p].pollExecute = 0

\* A Create run has deselected an item, executed, polled the execute task
\* and ended.
C14_Witness ==
    /\ kind[1] = "Create"
    /\ Len(net[1].modify) = 1
    /\ net[1].execute = 1
    /\ net[1].pollExecute = 1
    /\ pc[1] = "done"

\* ------------------------------------------------------------------------
\* C15
\* ------------------------------------------------------------------------

\* The two errors of DeselectUpdates that name designation d.
NamesDesignation(err, d) ==
    \/ err = "POST request to deselect '" \o Text(d) \o "' failed"
    \/ err = "deselect POST request for '" \o Text(d)
                 \o "' returned status code"

\* C15: DeselectUpdates posts the designations one by one in list order and
\* never after a failed POST; it returns an error naming the designation of
\* the failed POST, and succeeds when every designation was posted without
\* failure, so without any POST for an empty list.
C15_Deselect ==
    Calls("DeselectUpdates") =>
        LET m == net[1].modify
            l == loc[1].deselected
        IN  /\ Len(m) <= Len(l)
            /\ \A k \in 1..Len(m) : m[k].Designation = l[k]
            /\ \A k \in 1..(Len(m) - 1) : ~ModifyFailed(m[k])
            /\ pc[1] = "returned" =>
                  IF Len(m) > 0 /\ ModifyFailed(m[Len(m)])
                  THEN NamesDesignation(loc[1].err, l[Len(m)])
                  ELSE Len(m) = Len(l) /\ loc[1].err = ""

\* A call with three designations has returned after the second POST was
\* answered 500.
C15_Witness ==
    /\ Returned("DeselectUpdates")
    /\ Len(loc[1].deselected) = 3
    /\ Len(net[1].modify) = 2
    /\ net[1].modify[2].StatusCode = 500
    /\ loc[1].err # ""

\* ------------------------------------------------------------------------
\* C16
\* ------------------------------------------------------------------------

\* IsCollectionCacheValid has returned in p.
Judged(p) == net[p].fetchCalls >= 1 /\ pc[p] # "cache"

\* The polls of the check task p has made.
CheckPolls(p) == net[p].poll - net[p].pollExecute

\* C16: with the cache judged valid the invocation issues no check trigger
\* and polls no check task, and its fetch of the collection makes at most 3
\* (Create) or 5 (Read) attempts; with the cache judged invalid the fetch of
\* the collection starts only after exactly one check trigger and makes at
\* most 12 attempts.  No invocation issues a second check trigger.
C16_CachePaths ==
    \A p \in Procs :
        Handler(p) =>
            /\ net[p].check <= 1
            /\ net[p].fetchCalls <= 2
            /\ loc[p].cacheValid =>
                  /\ net[p].check = 0
                  /\ CheckPolls(p) = 0
                  /\ pc[p] = "cached" =>
                        loc[p].i < (IF kind[p] = "Create" THEN 3 ELSE 5)
                  /\ loc[p].attempts <= (IF kind[p] = "Create" THEN 3 ELSE 5)
            /\ (Judged(p) /\ ~loc[p].cacheValid) =>
                  /\ pc[p] = "trigger" =>
                        net[p].check = 0 /\ net[p].fetchCalls = 1
                  /\ pc[p] = "fetch" => net[p].check = 1 /\ loc[p].i < 12
                  /\ net[p].fetchCalls = 2 =>
                        net[p].check = 1 /\ loc[p].attempts <= 12

\* A Read with a valid cache has got the collection at the fifth attempt.
C16_Witness ==
    /\ kind[1] = "Read"
    /\ loc[1].cacheValid
    /\ net[1].fetchCalls = 2
    /\ loc[1].attempts = 5
    /\ state[1].isSet
    /\ net[1].check = 0

\* ------------------------------------------------------------------------
\* C17
\* ------------------------------------------------------------------------

\* C17: an invocation whose check trigger was answered with a success status
\* and no task location polls no check task and raises no error for the
\* trigger or the task; it has slept 5 seconds and is at, or past, the fetch
\* of the collection with the budget of 12 attempts.
C17_NoLocation ==
    \A p \in Procs :
        (Handler(p) /\ net[p].checkAnswer = "2xx without Location") =>
            /\ CheckPolls(p) = 0
            /\ \A e \in Range(diags[p].errors) :
                  e \notin { "Trigger Online Update Check Failed",
                             "Preaper Online Update Check Task Failed",
                             "Online Update Task Failed" }
            /\ net[p].sleep # <<>> /\ net[p].sleep[1] = 5
            /\ pc[p] = "fetch" \/ net[p].fetchCalls = 2
            /\ pc[p] = "fetch" => loc[p].i < 12
            /\ loc[p].attempts <= 12

\* A Read whose check trigger returned no task location has fetched the
\* collection and ended.
C17_Witness ==
    /\ kind[1] = "Read"
    /\ net[1].checkAnswer = "2xx without Location"
    /\ net[1].sleep = << 5 >>
    /\ net[1].poll = 0
    /\ state[1].isSet
    /\ pc[1] = "done"

\* ------------------------------------------------------------------------
\* C18
\* ------------------------------------------------------------------------

\* A response with status 200, 201, 202 or 204 and no Location header.
SuccessWithoutLocation(resp) ==
    /\ ~resp.err
    /\ resp.StatusCode \in {200, 201, 202, 204}
    /\ resp.Location = ""

\* C18: TriggerOnlineUpdateExecute returns an error and no location for
\* every response without a Location header, a 200/201/202/204 one
\* included; TriggerOnlineUpdateCheck returns no error and an empty location
\* for a 200/201/202/204 response without a Location header.
C18_LocationMandatory ==
    /\ (Returned("TriggerOnlineUpdateExecute") /\ loc[1].resp.Location = "") =>
          loc[1].err # "" /\ loc[1].executeTaskLocation = ""
    /\ (/\ Returned("TriggerOnlineUpdateExecute")
        /\ SuccessWithoutLocation(loc[1].resp)) =>
          loc[1].err = "Task Location header not found in response"
    /\ (/\ Returned("TriggerOnlineUpdateCheck")
        /\ SuccessWithoutLocation(loc[1].resp)) =>
          loc[1].err = "" /\ loc[1].taskLocation = ""

\* TriggerOnlineUpdateExecute has returned for a 204 response without a
\* Location header.
C18_Witness ==
    /\ Returned("TriggerOnlineUpdateExecute")
    /\ SuccessWithoutLocation(loc[1].resp)
    /\ loc[1].resp.StatusCode = 204
    /\ loc[1].err # ""

\* ------------------------------------------------------------------------
\* C19
\* ------------------------------------------------------------------------

\* C19: CheckOnlineUpdateStatus polls the task once and returns no error if
\* and only if the poller reported a successful finish and no error;
\* otherwise it has fetched the task log exactly once and returns an error,
\* whether the fetch of the log failed or not.  It fetches no log after a
\* successful finish.
C19_TaskStatus ==
    Returned("CheckOnlineUpdateStatus") =>
        LET w == loc[1].wait
            ok == w.finishedSuccessfully /\ w.err = ""
        IN  /\ net[1].poll = 1
            /\ loc[1].err = "" <=> ok
            /\ net[1].taskLog = (IF ok THEN 0 ELSE 1)

\* A call has returned for a task that timed out and whose log could not be
\* fetched.
C19_Witness ==
    /\ Returned("CheckOnlineUpdateStatus")
    /\ loc[1].wait.err = "timeout"
    /\ loc[1].wait.logHasError
    /\ net[1].taskLog = 1
    /\ loc[1].err # ""

\* ------------------------------------------------------------------------
\* C20
\* ------------------------------------------------------------------------

\* C20: in GetOnlineUpdateCollectionWithRetry a fetch that failed (transport
\* error, status other than 200, decode error) is the last fetch: the call
\* has returned with that error and no collection; every fetch followed by
\* another one was in progress.
C20_ErrorEndsRetry ==
    Calls("GetOnlineUpdateCollectionWithRetry") =>
        LET f == loc[1].fetched
        IN  \A k \in 1..Len(f) :
               /\ f[k].err # "" =>
                     /\ k = Len(f)
                     /\ pc[1] = "returned"
                     /\ loc[1].err = f[k].err
                     /\ loc[1].collection = NilCheck
               /\ k < Len(f) => f[k].inProgress /\ f[k].err = ""

\* A call with budget 3 has returned at its second fetch, which did not
\* decode.
C20_Witness ==
    /\ Returned("GetOnlineUpdateCollectionWithRetry")
    /\ loc[1].retries = 3
    /\ Len(loc[1].fetched) = 2
    /\ loc[1].fetched[1].inProgress
    /\ loc[1].fetched[2].err = "Error decoding JSON response"
    /\ loc[1].err = "Error decoding JSON response"

\* ------------------------------------------------------------------------
\* C21
\* ------------------------------------------------------------------------

\* The check endpoint of the server p talks to.
CheckEndpointOf(p) ==
    IF bmc[plan[p].Endpoint].Fsas
    THEN "/redfish/v1/Systems/0/Oem/Fsas/eLCM/Actions/FsaseLCM.OnlineUpdate"
    ELSE "/redfish/v1/Systems/0/Oem/ts_fujitsu/eLCM/Actions/FTSeLCM.OnlineUpdate"

\* A remote call of p was refused: the license read, the check trigger, a
\* modify-collection POST or the execute trigger.
CallRefused(p) ==
    \/ net[p].license = 1 /\ LicenseRefused(net[p].licenseResp)
    \/ net[p].checkAnswer \in {"transport error", "error status"}
    \/ \E k \in 1..Len(net[p].modify) : ModifyFailed(net[p].modify[k])
    \/ net[p].executeAnswer \in
          {"transport error", "error status", "2xx without Location"}

\* C21: a refused call is reported as an error; an invocation that has
\* reported an error has reported one only, is on its way out, has written
\* no state and set no id, and from then on issues no check trigger, no
\* modify-collection POST and no execute POST and writes no state; written
\* state carries the check endpoint as id and belongs to a run without error.
C21_FatalAborts ==
    /\ [](\A p \in Procs :
             Handler(p) =>
                /\ CallRefused(p) => diags[p].errors # <<>>
                /\ diags[p].errors # <<>> =>
                      /\ Len(diags[p].errors) = 1
                      /\ Ended(p)
                      /\ ~state[p].isSet
                      /\ IsNull(plan[p].Id)
                /\ state[p].isSet =>
                      /\ diags[p].errors = <<>>
                      /\ state[p].Id = CheckEndpointOf(p))
    /\ [][\A p \in Procs :
             (Handler(p) /\ diags[p].errors # <<>>) =>
                /\ net'[p].check = net[p].check
                /\ net'[p].modify = net[p].modify
                /\ net'[p].execute = net[p].execute
                /\ state'[p] = state[p]]_vars

\* A Create run whose execute task failed has ended without state.
C21_Witness ==
    /\ kind[1] = "Create"
    /\ diags[1].errors = << "Online Update Execute Task Failed" >>
    /\ net[1].execute = 1
    /\ ~state[1].isSet
    /\ pc[1] = "done"

\* ------------------------------------------------------------------------
\* C22
\* ------------------------------------------------------------------------

\* C22: every Create and Read ends, having issued at most one check trigger,
\* at most one execute POST, at most one modify-collection POST per item of
\* the collection, and at most two fetch loops: that of the cache check with
\* at most 2 fetches and one more with at most 12, so at most 14 fetches.
C22_Terminates ==
    /\ [](\A p \in Procs :
             Handler(p) =>
                /\ net[p].check <= 1
                /\ net[p].execute <= 1
                /\ Len(net[p].modify) <= Len(loc[p].collection.UpdateCollection)
                /\ \A j, k \in 1..Len(net[p].modify) :
                      net[p].modify[j].Designation = net[p].modify[k].Designation
                         => j = k
                /\ \A k \in 1..Len(net[p].modify) :
                      net[p].modify[k].Designation \in
                          Range(Designations(loc[p].collection.UpdateCollection))
                /\ net[p].fetchCalls <= 2
                /\ pc[p] = "cache" => loc[p].i < 2
                /\ (net[p].fetchCalls = 1 /\ pc[p] # "cache") =>
                      loc[p].attempts <= 2
                /\ pc[p] \in {"cached", "fetch"} => loc[p].i < 12
                /\ loc[p].attempts <= 12)
    /\ <>(\A p \in Procs : Handler(p) => pc[p] = "done")

\* A Create run has ended after a check trigger, twelve fetches, a
\* modify-collection POST and an execute POST.
C22_Witness ==
    /\ kind[1] = "Create"
    /\ net[1].check = 1
    /\ net[1].fetchCalls = 2
    /\ Len(net[1].modify) = 1
    /\ net[1].execute = 1
    /\ pc[1] = "done"

\* ------------------------------------------------------------------------
\* C23
\* ------------------------------------------------------------------------

\* u is not "Others", holds no "/" and is no known category.
Unmatched(u) ==
    /\ u # <<"Others">>
    /\ "/" \notin Range(u)
    /\ u \notin KnownCategories

\* The list l without its k-th entry.
Without(l, k) == SubSeq(l, 1, k - 1) \o SubSeq(l, k + 1, Len(l))

\* What PrepareUpdateLists returns for the plan of invocation 1 with the
\* k-th entry of its update_list left out.
PreparedWithout(k) ==
    PrepareUpdateLists(
        [plan[1] EXCEPT !.UpdateList =
            ListValue(Without(plan[1].UpdateList.elems, k))],
        loc[1].collection)

\* The update_list of invocation 1 is a list with a non-blank entry to
\* which u was added as k-th entry.
AddedTo(k, u) ==
    /\ plan[1].UpdateList.state = "known"
    /\ k \in 1..Len(plan[1].UpdateList.elems)
    /\ plan[1].UpdateList.elems[k] = u
    /\ HasNonBlankEntry(ListValue(Without(plan[1].UpdateList.elems, k)))

\* C23, as stated: adding to a list with a non-blank entry a string that is
\* not "Others", holds no "/" and is no known category gives no error and
\* the same selected and deselected lists.
C23_AsStated ==
    Prepared =>
        \A k \in 1..MaxList, u \in AllEntries :
            (AddedTo(k, u) /\ Unmatched(u)) =>
                /\ loc[1].err = ""
                /\ loc[1].selected = PreparedWithout(k).selected
                /\ loc[1].deselected = PreparedWithout(k).deselected

\* C23, amended: adding to a list with a non-blank entry a string that,
\* without the blanks around it, is not "Others", holds no "/" and is no
\* known category gives no error and the same selected and deselected lists.
C23_Dropped ==
    Prepared =>
        \A k \in 1..MaxList, u \in AllEntries :
            (AddedTo(k, u) /\ Unmatched(Core(u))) =>
                /\ loc[1].err = ""
                /\ loc[1].selected = PreparedWithout(k).selected
                /\ loc[1].deselected = PreparedWithout(k).deselected

\* PrepareUpdateLists has returned for the list "SystemBoard", "VendorX" and
\* a collection with an item of component VendorX, which it deselected.
C23_Witness ==
    /\ Prepared
    /\ AddedTo(2, <<"VendorX">>)
    /\ plan[1].UpdateList.elems[1] = <<"SystemBoard">>
    /\ ItemC \in Range(loc[1].collection.UpdateCollection)
    /\ ItemC.Designation \in Range(loc[1].deselected)
    /\ loc[1].selected # <<>>

\* ------------------------------------------------------------------------
\* C24
\* ------------------------------------------------------------------------

\* C24: when a Create run issues its execute POST, the items the server
\* holds marked for execution are the items the run selected.
C24_MarkedIsSelected ==
    \A p \in Procs :
        (kind[p] = "Create" /\ net[p].execute = 1) =>
            net[p].executeMarked = loc[p].selected

\* ------------------------------------------------------------------------
\* C25
\* ------------------------------------------------------------------------

\* C25: a Create run that ends without error with a non-null update_list
\* matching no item of a non-empty collection has issued no execute POST and no
\* modify-collection POST.
C25_NoMatchNoModify ==
    \A p \in Procs :
        (/\ kind[p] = "Create"
         /\ pc[p] = "done"
         /\ ~IsNull(plan[p].UpdateList)
         /\ diags[p].errors = <<>>
         /\ Len(loc[p].collection.UpdateCollection) > 0
         /\ Len(loc[p].selected) = 0) =>
            /\ net[p].execute = 0
            /\ net[p].modify = <<>>

\* ------------------------------------------------------------------------
\* C26
\* ------------------------------------------------------------------------

\* C26: a Create run that fails the validation of the execute payload has
\* issued no modify-collection POST.
C26_ValidationFirst ==
    \A p \in Procs :
        (/\ kind[p] = "Create"
         /\ "Failed to build execute payload" \in Range(diags[p].errors)) =>
            net[p].modify = <<>>

\* ------------------------------------------------------------------------
\* C27
\* ------------------------------------------------------------------------

C28_LockReleasedOnce ==
    \A p \in Procs :
        kind[p] = "Create" =>
            /\ net[p].unlock = (IF pc[p] = "done" THEN 1 ELSE 0)
            /\ (MutexKey(p) \in mutexPool) <=> (pc[p] \notin {"lock", "done"})
            /\ net[p].logout =
                  (IF pc[p] \in {"unlock", "done"} /\ loc[p].api THEN 1 ELSE 0)

\* A Create run that connected, reported an error, logged out and released
\* the lock.
C28_Witness ==
    \E p \in Procs :
        /\ kind[p] = "Create"
        /\ pc[p] = "done"
        /\ diags[p].errors # <<>>
        /\ net[p].unlock = 1
        /\ net[p].logout = 1
        /\ MutexKey(p) \notin mutexPool

====
